---- MODULE Spec2Model ----
(***************************************************************************)
(* SSEChat-FRP: the stream relay (NDJSON -> SSE), the stream consumer      *)
(* (SSE -> callbacks) and the session controller of the chat page.         *)
(*                                                                         *)
(* Text is a sequence of tokens.  A token is a newline, another whitespace *)
(* character, the "data:" prefix, the "[DONE]" sentinel, a brace, one      *)
(* "key":value member of a JSON object, or a piece of text that is not     *)
(* JSON.  Chunk boundaries fall between tokens; the section on bytes adds  *)
(* a boundary inside a character of more than one byte.                    *)
(***************************************************************************)
EXTENDS Integers, Sequences, FiniteSets, TLC

VARIABLES
  \* ---- relay (server side, POST /chat) ----
  rPc,          \* "requesting" | "streaming" | "ended": where the generator is parked
  rBuffer,      \* let buffer = ''
  rWritten,     \* payloads handed to reply.raw.write, in order
  rEnded,       \* number of reply.raw.end() calls
  rClosed,      \* the client socket has emitted 'close'
  rListening,   \* handleClientClose is registered on the socket
  rAborted,     \* upstreamAbort.signal.aborted
  rUpstream,    \* "null" | "open" | "destroyed": the variable upstream
  rPulled,      \* upstream chunks pulled by the for-await loop
  rConsumed,    \* all upstream text pulled so far (history)
  rCause,       \* "none" | "end" | "transport" | "cancel": why the generator left the loop
  rErrName      \* name of the error the catch block saw ("none" if none)

rvars == <<rPc, rBuffer, rWritten, rEnded, rClosed, rListening, rAborted,
           rUpstream, rPulled, rConsumed, rCause, rErrName>>

VARIABLES
  \* ---- session controller (ChatPage) ----
  messages,          \* useState<ChatMessage[]>: the flat list of nodes
  selectedBranches,  \* useState<Record<string, string>>: selector key -> child id
  isStreaming,       \* useState(false)
  error,             \* useState<string | null>; "null" is null
  messageInfo,       \* useState<Record<string, CompletionInfo>>
  abortRef,          \* abortControllerRef.current: the exchange it aborts, or NoId
  exchanges,         \* the sendPrompt calls parked at an await, by assistant id
  nextId,            \* the next id generateMessageId hands out
  lastRequest,       \* body.messages of the last fetch issued
  lastCall,          \* outcome of the last sendPrompt call (history)
  delivered          \* the deltas onContent was invoked with by the latest
                     \* sendPrompt call, in call order (history)

svars == <<messages, selectedBranches, isStreaming, error, messageInfo, abortRef,
           exchanges, nextId, lastRequest, lastCall, delivered>>

VARIABLES
  \* ---- stream consumer (one consumeEventStream call) ----
  cPc,          \* "reading" | "returned" | "ended": parked at reader.read(), returned
                \* from the event loop, or finished after the trailing flush
  cBuffer,      \* let buffer = ''
  cCalls,       \* the callbacks invoked so far, in order
  cText,        \* all text reader.read() has delivered (history)
  cReads,       \* chunks reader.read() has delivered
  cUnread       \* chunks that reached the stream after the call returned

cvars == <<cPc, cBuffer, cCalls, cText, cReads, cUnread>>

VARIABLES
  \* ---- the functions of message-tree.ts, called on their own ----
  gPc,          \* "input" | "resolved" | "built" | "rebuilt" | "queried" | "walked"
  gMsgs,        \* the flat list the tree is built from
  gSel,         \* the selection map
  gLeaf,        \* what getActiveLeaf returned; Diverges if it does not return
  gPath,        \* the ids of getMessagePath(tree, leaf)
  gTree,        \* what the last buildMessageTree call returned
  gFirst,       \* what the buildMessageTree call before it returned
  gQuery,       \* the id getSiblings or getMessagePath was called with
  gSiblings     \* the ids of the nodes getSiblings returned

gvars == <<gPc, gMsgs, gSel, gLeaf, gPath, gTree, gFirst, gQuery, gSiblings>>

VARIABLES
  \* ---- the two incremental parsers, run on one byte stream ----
  pPc,          \* "input" | "relayed" | "consumed"
  pChunks,      \* the chunks the byte stream arrives in, in order
  pOut          \* what the parser produced: the payloads the relay yielded, or
                \* the callbacks the consumer invoked

pvars == <<pPc, pChunks, pOut>>

vars == <<rvars, svars, cvars, gvars, pvars>>

-----------------------------------------------------------------------------
(* Bounds *)

MaxChunks == 3
MaxNodes == 4
MaxReads == 2
MaxTreeIds == 6
MaxForest == 3
MaxConsumerReads == 3
MaxUnread == 1
MaxFlat == 3

-----------------------------------------------------------------------------
(* Tokens and text *)

NL == [t |-> "nl"]
SP == [t |-> "sp"]
LB == [t |-> "{"]
RB == [t |-> "}"]
DataPrefix == [t |-> "data:"]
DoneSentinel == [t |-> "[DONE]"]
Junk == [t |-> "junk"]
Fld(k, v) == [t |-> "fld", k |-> k, v |-> v]

IsSpace(tok) == tok = NL \/ tok = SP

\* String.prototype.indexOf('\n'), 1-based; 0 when absent
RECURSIVE ScanNL(_, _)
ScanNL(s, i) ==
  IF i > Len(s) THEN 0 ELSE IF s[i] = NL THEN i ELSE ScanNL(s, i + 1)

IndexOfNL(s) == ScanNL(s, 1)

\* String.prototype.indexOf('\n\n'), 1-based; 0 when absent
RECURSIVE ScanBoundary(_, _)
ScanBoundary(s, i) ==
  IF i >= Len(s) THEN 0
  ELSE IF s[i] = NL /\ s[i+1] = NL THEN i
  ELSE ScanBoundary(s, i + 1)

IndexOfBoundary(s) == ScanBoundary(s, 1)

\* String.prototype.trim()
RECURSIVE TrimStart(_)
TrimStart(s) ==
  IF Len(s) > 0 /\ IsSpace(s[1]) THEN TrimStart(Tail(s)) ELSE s

RECURSIVE TrimEnd(_)
TrimEnd(s) ==
  IF Len(s) > 0 /\ IsSpace(s[Len(s)]) THEN TrimEnd(SubSeq(s, 1, Len(s) - 1)) ELSE s

Trim(s) == TrimEnd(TrimStart(s))

-----------------------------------------------------------------------------
(* JSON objects are functions from keys to values; an absent key is        *)
(* undefined.                                                              *)

KeyOrder == <<"content", "id", "parentId", "error", "done", "model", "created_at",
              "done_reason", "total_duration", "load_duration",
              "prompt_eval_count", "prompt_eval_duration", "eval_count",
              "eval_duration", "message", "response", "context">>

Has(o, k) == k \in DOMAIN o

\* JSON.stringify of an object literal: members whose value is undefined are
\* left out, one member per defined key
JSONstringify(o) ==
  LET present == SelectSeq(KeyOrder, LAMBDA k : Has(o, k))
  IN <<LB>> \o [i \in 1..Len(present) |-> Fld(present[i], o[present[i]])] \o <<RB>>

\* JSON.parse: [ok |-> FALSE] stands for the SyntaxError
RECURSIVE Members(_, _)
Members(s, i) ==
  IF i >= Len(s) THEN <<>> ELSE Members(s, i + 1) @@ (s[i].k :> s[i].v)

JSONparse(s) ==
  IF /\ Len(s) >= 2
     /\ s[1] = LB
     /\ s[Len(s)] = RB
     /\ \A i \in 2..(Len(s)-1) : s[i].t = "fld"
  THEN [ok |-> TRUE, val |-> Members(s, 2)]
  ELSE [ok |-> FALSE]

-----------------------------------------------------------------------------
(* Stream relay: parseOllamaLine and the line loop of eventSourceFactory   *)

\* JS truthiness of a string value
TruthyStr(v) == v # ""

\* parsed.message?.content, when it is truthy
HasContent(parsed) ==
  /\ Has(parsed, "message")
  /\ Has(parsed["message"], "content")
  /\ TruthyStr(parsed["message"]["content"])

\* the object literal of the content frame: content, id, parentId
ContentFrame(parsed) ==
  LET m == parsed["message"]
  IN [k \in ({"content", "id", "parentId"} \cap DOMAIN m) |-> m[k]]

\* the keys parseOllamaLine destructures from the terminal object
CompletionKeys ==
  {"message", "response", "created_at", "done_reason", "total_duration",
   "load_duration", "prompt_eval_count", "prompt_eval_duration", "eval_count",
   "eval_duration", "model", "done"}

\* the object literal of the completion frame (done: done ?? true)
CompletionFrame(parsed) ==
  [k \in (CompletionKeys \cap DOMAIN parsed) |-> parsed[k]]

\* a variant that yields an error event for a line JSON.parse rejects
parseOllamaLineReporting(line) ==
  LET r == JSONparse(line)
  IN IF ~r.ok THEN <<JSONstringify("error" :> "Unable to parse Ollama chunk")>>
     ELSE (IF HasContent(r.val) THEN <<JSONstringify(ContentFrame(r.val))>> ELSE <<>>)
          \o (IF Has(r.val, "done") /\ r.val["done"]
              THEN <<JSONstringify(CompletionFrame(r.val)), <<DoneSentinel>> >>
              ELSE <<>>)

\* function* parseOllamaLine: the payloads it yields for one line
parseOllamaLine(line) ==
  LET r == JSONparse(line)
  IN IF ~r.ok THEN <<>>
     ELSE (IF HasContent(r.val) THEN <<JSONstringify(ContentFrame(r.val))>> ELSE <<>>)
          \o (IF Has(r.val, "done") /\ r.val["done"]
              THEN <<JSONstringify(CompletionFrame(r.val)), <<DoneSentinel>> >>
              ELSE <<>>)

\* the while (newlineIndex !== -1) loop: [buffer, events]
RECURSIVE DrainLines(_, _)
DrainLines(buf, evs) ==
  LET i == IndexOfNL(buf)
  IN IF i = 0 THEN [buffer |-> buf, events |-> evs]
     ELSE LET line == Trim(SubSeq(buf, 1, i - 1))
              rest == SubSeq(buf, i + 1, Len(buf))
          IN DrainLines(rest, IF Len(line) > 0 THEN evs \o parseOllamaLine(line) ELSE evs)

\* if (buffer.trim().length > 0) yield* parseOllamaLine(buffer.trim())
FlushTrailing(buf) ==
  IF Len(Trim(buf)) > 0 THEN parseOllamaLine(Trim(buf)) ELSE <<>>

\* handleClientClose: upstream?.destroy(); upstreamAbort.abort()
handleClientCloseNothing(upstream) ==
  [upstream |-> upstream, aborted |-> FALSE]

handleClientClose(upstream) ==
  [upstream |-> IF upstream = "null" THEN "null" ELSE "destroyed", aborted |-> TRUE]

\* a catch block with the test inverted
ReportsErrorInverted(name) == name = "AbortError"

\* if ((error as Error).name !== 'AbortError')
ReportsError(name) == name # "AbortError"

\* formatOllamaError: always a string
formatOllamaError(name) == "Ollama request failed"

\* names an error can carry when the pending await is rejected because the
\* client closed: the platform's abort error, the HTTP client's cancel error,
\* the stream's premature-close error
CancelErrorNames == {"AbortError", "CanceledError", "Error"}

\* names of upstream transport failures
TransportErrorNames == {"AxiosError", "Error"}

(* Upstream NDJSON lines *)
LineHi    == ("message" :> ("content" :> "Hi") @@ "done" :> FALSE)
LineThere == ("message" :> ("content" :> " there") @@ "done" :> FALSE)
LineDone  == ("done" :> TRUE @@ "eval_count" :> 5 @@ "eval_duration" :> 1000000000
              @@ "model" :> "x")
LineDoneEmptyMsg == LineDone @@ ("message" :> ("content" :> ""))
LineDoneMsg == LineDone @@ ("message" :> ("content" :> "!"))
\* a terminal object with a member the relay does not name
LineDoneContext == LineDone @@ ("context" :> "ctx")

HiText == JSONstringify(LineHi)

UpstreamChunks ==
  { JSONstringify(LineHi) \o <<NL>>,
    JSONstringify(LineThere) \o <<NL>>,
    JSONstringify(LineDone) \o <<NL>>,
    JSONstringify(LineDoneEmptyMsg) \o <<NL>>,
    JSONstringify(LineDoneMsg) \o <<NL>>,
    JSONstringify(LineDoneContext) \o <<NL>>,
    <<Junk, NL>>,
    SubSeq(HiText, 1, 2),
    SubSeq(HiText, 3, Len(HiText)) \o <<NL>>,
    JSONstringify(LineDone) }

-----------------------------------------------------------------------------
(* Stream consumer: consumeEventStream and extractEventData                *)

\* String.prototype.split('\n')
RECURSIVE SplitOnNL(_)
SplitOnNL(s) ==
  LET i == IndexOfNL(s)
  IN IF i = 0 THEN <<s>>
     ELSE <<SubSeq(s, 1, i - 1)>> \o SplitOnNL(SubSeq(s, i + 1, Len(s)))

\* Array.prototype.join('\n')
RECURSIVE JoinNL(_)
JoinNL(ls) ==
  IF Len(ls) = 0 THEN <<>>
  ELSE IF Len(ls) = 1 THEN ls[1]
  ELSE ls[1] \o <<NL>> \o JoinNL(Tail(ls))

\* line.replace(/^data:\s*/, '') on a line that starts with "data:"
RECURSIVE DropLeadingSpace(_)
DropLeadingSpace(s) ==
  IF Len(s) > 0 /\ IsSpace(s[1]) THEN DropLeadingSpace(Tail(s)) ELSE s

StripDataPrefix(l) == DropLeadingSpace(Tail(l))

extractEventData(eventChunk) ==
  LET dataLines == SelectSeq(SplitOnNL(eventChunk),
                             LAMBDA l : Len(l) > 0 /\ l[1] = DataPrefix)
  IN JoinNL([i \in 1..Len(dataLines) |-> StripDataPrefix(dataLines[i])])

\* the callbacks, as log entries
OnContent(delta) == [cb |-> "content", delta |-> delta]
OnServerError(message) == [cb |-> "error", message |-> message]
OnComplete(payload) == [cb |-> "complete", payload |-> payload]

\* the deltas, and the completion entries, of a callback log
ContentCalls(calls) ==
  LET cs == SelectSeq(calls, LAMBDA c : c.cb = "content")
  IN [i \in 1..Len(cs) |-> cs[i].delta]

CompleteCalls(calls) == SelectSeq(calls, LAMBDA c : c.cb = "complete")

\* payload.content ?? payload.message?.content is defined and truthy
HasDelta(p) ==
  IF Has(p, "content") THEN TruthyStr(p["content"])
  ELSE /\ Has(p, "message")
       /\ Has(p["message"], "content")
       /\ TruthyStr(p["message"]["content"])

DeltaOf(p) == IF Has(p, "content") THEN p["content"] ELSE p["message"]["content"]

IsDone(p) == Has(p, "done") /\ p["done"]
IsError(p) == Has(p, "error") /\ TruthyStr(p["error"])

\* an event loop that reports a payload JSON.parse rejects and returns
HandleEventReporting(data) ==
  IF data = <<>> THEN [calls |-> <<>>, stop |-> FALSE]
  ELSE IF data = <<DoneSentinel>> THEN [calls |-> <<>>, stop |-> TRUE]
  ELSE LET r == JSONparse(data)
       IN IF ~r.ok THEN [calls |-> <<OnServerError("malformed")>>, stop |-> TRUE]
          ELSE IF IsError(r.val)
               THEN [calls |-> <<OnServerError(r.val["error"])>>, stop |-> TRUE]
          ELSE LET d == IF HasDelta(r.val) THEN <<OnContent(DeltaOf(r.val))>> ELSE <<>>
               IN IF IsDone(r.val)
                  THEN [calls |-> d \o <<OnComplete(r.val)>>, stop |-> TRUE]
                  ELSE [calls |-> d, stop |-> FALSE]

\* an event loop that goes on after the completion event
HandleEventContinues(data) ==
  IF data = <<>> THEN [calls |-> <<>>, stop |-> FALSE]
  ELSE IF data = <<DoneSentinel>> THEN [calls |-> <<>>, stop |-> TRUE]
  ELSE LET r == JSONparse(data)
       IN IF ~r.ok THEN [calls |-> <<>>, stop |-> FALSE]
          ELSE IF IsError(r.val)
               THEN [calls |-> <<OnServerError(r.val["error"])>>, stop |-> TRUE]
          ELSE LET d == IF HasDelta(r.val) THEN <<OnContent(DeltaOf(r.val))>> ELSE <<>>
               IN IF IsDone(r.val)
                  THEN [calls |-> d \o <<OnComplete(r.val)>>, stop |-> FALSE]
                  ELSE [calls |-> d, stop |-> FALSE]

\* the body of the event loop for one event: the callbacks invoked and
\* whether consumeEventStream returns
HandleEvent(data) ==
  IF data = <<>> THEN [calls |-> <<>>, stop |-> FALSE]
  ELSE IF data = <<DoneSentinel>> THEN [calls |-> <<>>, stop |-> TRUE]
  ELSE LET r == JSONparse(data)
       IN IF ~r.ok THEN [calls |-> <<>>, stop |-> FALSE]
          ELSE IF IsError(r.val)
               THEN [calls |-> <<OnServerError(r.val["error"])>>, stop |-> TRUE]
          ELSE LET d == IF HasDelta(r.val) THEN <<OnContent(DeltaOf(r.val))>> ELSE <<>>
               IN IF IsDone(r.val)
                  THEN [calls |-> d \o <<OnComplete(r.val)>>, stop |-> TRUE]
                  ELSE [calls |-> d, stop |-> FALSE]

\* the while (boundary !== -1) loop: [buffer, calls, stopped]
RECURSIVE DrainEvents(_, _)
DrainEvents(buf, calls) ==
  LET i == IndexOfBoundary(buf)
  IN IF i = 0 THEN [buffer |-> buf, calls |-> calls, stopped |-> FALSE]
     ELSE LET rawEvent == Trim(SubSeq(buf, 1, i - 1))
              rest == SubSeq(buf, i + 2, Len(buf))
              h == HandleEvent(extractEventData(rawEvent))
          IN IF h.stop
             THEN [buffer |-> rest, calls |-> calls \o h.calls, stopped |-> TRUE]
             ELSE DrainEvents(rest, calls \o h.calls)

\* the trailing flush after reader.read() reports done
TrailingCalls(buf) ==
  LET data == extractEventData(Trim(buf))
  IN IF data = <<>> \/ data = <<DoneSentinel>> THEN <<>>
     ELSE LET r == JSONparse(data)
          IN IF ~r.ok THEN <<>>
             ELSE (IF IsError(r.val) THEN <<OnServerError(r.val["error"])>>
                   ELSE IF HasDelta(r.val) THEN <<OnContent(DeltaOf(r.val))>>
                   ELSE <<>>)
                  \o (IF IsDone(r.val) THEN <<OnComplete(r.val)>> ELSE <<>>)

\* consumeEventStream on a stream that delivers the given chunks and ends
RECURSIVE ConsumeChunks(_, _, _)
ConsumeChunks(chunks, buf, calls) ==
  IF Len(chunks) = 0 THEN calls \o TrailingCalls(buf)
  ELSE LET d == DrainEvents(buf \o Head(chunks), calls)
       IN IF d.stopped THEN d.calls
          ELSE ConsumeChunks(Tail(chunks), d.buffer, d.calls)

\* sendEventStream: reply.raw.write(`data: ${payload}\n\n`)
SSEFrame(payload) == <<DataPrefix, SP>> \o payload \o <<NL, NL>>

-----------------------------------------------------------------------------
(* Relay actions *)

ErrorPayload(name) == JSONstringify("error" :> formatOllamaError(name))

\* a relay whose response is not ended once the generator has thrown
RelayCatchLeavesOpen(name, cause) ==
  /\ rWritten' = IF ReportsError(name) THEN Append(rWritten, ErrorPayload(name))
                 ELSE rWritten
  /\ rErrName' = name
  /\ rCause' = cause
  /\ rListening' = FALSE
  /\ rUpstream' = IF rUpstream = "null" THEN "null" ELSE "destroyed"
  /\ rPc' = "ended"
  /\ UNCHANGED <<rBuffer, rEnded, rClosed, rAborted, rPulled, rConsumed, svars, cvars, gvars, pvars>>

\* catch (error) { if (name !== 'AbortError') yield error frame } finally {...}
\* and then sendEventStream's reply.raw.end()
RelayCatch(name, cause) ==
  /\ rWritten' = IF ReportsError(name) THEN Append(rWritten, ErrorPayload(name))
                 ELSE rWritten
  /\ rErrName' = name
  /\ rCause' = cause
  /\ rListening' = FALSE
  /\ rUpstream' = IF rUpstream = "null" THEN "null" ELSE "destroyed"
  /\ rEnded' = rEnded + 1
  /\ rPc' = "ended"
  /\ UNCHANGED <<rBuffer, rClosed, rAborted, rPulled, rConsumed, svars, cvars, gvars, pvars>>

\* await axios(...) resolves: upstream = response.data; buffer = ''
AxiosResolve ==
  /\ rPc = "requesting" /\ ~rAborted
  /\ rPc' = "streaming"
  /\ rUpstream' = "open"
  /\ rBuffer' = <<>>
  /\ UNCHANGED <<rWritten, rEnded, rClosed, rListening, rAborted, rPulled,
                 rConsumed, rCause, rErrName, svars, cvars, gvars, pvars>>

\* await axios(...) rejects: connection refused, non-2xx status
AxiosReject ==
  /\ rPc = "requesting" /\ ~rAborted
  /\ \E n \in TransportErrorNames : RelayCatch(n, "transport")

\* await axios(...) rejects because upstreamAbort was aborted
AxiosCancelled ==
  /\ rPc = "requesting" /\ rAborted
  /\ \E n \in CancelErrorNames : RelayCatch(n, "cancel")

\* one iteration of for await (const chunk of upstream), with every event the
\* line loop yields written by sendEventStream
UpstreamChunk ==
  /\ rPc = "streaming" /\ rUpstream = "open"
  /\ rPulled < MaxChunks
  /\ \E c \in UpstreamChunks :
       LET d == DrainLines(rBuffer \o c, <<>>)
       IN /\ rBuffer' = d.buffer
          /\ rWritten' = rWritten \o d.events
          /\ rConsumed' = rConsumed \o c
  /\ rPulled' = rPulled + 1
  /\ UNCHANGED <<rPc, rEnded, rClosed, rListening, rAborted, rUpstream, rCause, rErrName, svars, cvars, gvars, pvars>>

\* the upstream body ends: trailing flush, finally, reply.raw.end()
UpstreamEnd ==
  /\ rPc = "streaming" /\ rUpstream = "open"
  /\ rWritten' = rWritten \o FlushTrailing(rBuffer)
  /\ rCause' = "end"
  /\ rListening' = FALSE
  /\ rUpstream' = "destroyed"
  /\ rEnded' = rEnded + 1
  /\ rPc' = "ended"
  /\ UNCHANGED <<rBuffer, rClosed, rAborted, rPulled, rConsumed, rErrName, svars, cvars, gvars, pvars>>

\* the upstream body fails mid-stream (connection reset)
UpstreamFail ==
  /\ rPc = "streaming" /\ rUpstream = "open"
  /\ \E n \in TransportErrorNames : RelayCatch(n, "transport")

\* the for-await loop finds the stream destroyed by handleClientClose
UpstreamDestroyed ==
  /\ rPc = "streaming" /\ rUpstream = "destroyed"
  /\ \E n \in CancelErrorNames : RelayCatch(n, "cancel")

\* the client socket emits 'close'
ClientClose ==
  /\ ~rClosed
  /\ rClosed' = TRUE
  /\ IF rListening
     THEN LET h == handleClientClose(rUpstream)
          IN /\ rUpstream' = h.upstream
             /\ rAborted' = (rAborted \/ h.aborted)
     ELSE UNCHANGED <<rUpstream, rAborted>>
  /\ UNCHANGED <<rPc, rBuffer, rWritten, rEnded, rListening, rPulled, rConsumed,
                 rCause, rErrName, svars, cvars, gvars, pvars>>

RelayInit ==
  /\ rPc = "requesting"
  /\ rBuffer = <<>>
  /\ rWritten = <<>>
  /\ rEnded = 0
  /\ rClosed = FALSE
  /\ rListening = TRUE
  /\ rAborted = FALSE
  /\ rUpstream = "null"
  /\ rPulled = 0
  /\ rConsumed = <<>>
  /\ rCause = "none"
  /\ rErrName = "none"

RelayNext ==
  \/ AxiosResolve
  \/ AxiosReject
  \/ AxiosCancelled
  \/ UpstreamChunk
  \/ UpstreamEnd
  \/ UpstreamFail
  \/ UpstreamDestroyed
  \/ ClientClose


-----------------------------------------------------------------------------
(* Conversation tree: message-tree.ts                                      *)

NoId == 0        \* an undefined id (parentId of a root, no active leaf)
RootKey == 0     \* the selector key 'root'
Diverges == -1   \* a walk that never returns

Put(f, k, v) == (k :> v) @@ f
Remove(f, k) == [x \in (DOMAIN f) \ {k} |-> f[x]]
Ids(msgs) == {msgs[i].id : i \in 1..Len(msgs)}

\* ms.map(m => m.id)
RECURSIVE IdsOfSeq(_)
IdsOfSeq(ms) ==
  IF Len(ms) = 0 THEN <<>> ELSE <<Head(ms).id>> \o IdsOfSeq(Tail(ms))

\* the key order of the Map: an id takes its place at its first tree.set
RECURSIVE InsertionOrder(_, _)
InsertionOrder(msgs, seen) ==
  IF Len(msgs) = 0 THEN <<>>
  ELSE IF Head(msgs).id \in seen THEN InsertionOrder(Tail(msgs), seen)
  ELSE <<Head(msgs).id>> \o InsertionOrder(Tail(msgs), seen \cup {Head(msgs).id})

\* first pass: tree.set(msg.id, {...msg, children: []}); a later set of the
\* same id replaces the entry
RECURSIVE FirstPass(_)
FirstPass(msgs) ==
  IF Len(msgs) = 0 THEN <<>>
  ELSE FirstPass(Tail(msgs)) @@ (Head(msgs).id :> [Head(msgs) EXCEPT !.children = <<>>])

\* second pass: every msg with a parentId found in the tree is pushed onto
\* that parent's children, in message order
RECURSIVE SecondPass(_, _, _)
SecondPass(first, msgs, ids) ==
  IF Len(ids) = 0 THEN <<>>
  ELSE LET id == Head(ids)
           kids == IdsOfSeq(SelectSeq(msgs, LAMBDA m : m.parentId # NoId /\ m.parentId = id))
       IN (id :> [first[id] EXCEPT !.children = kids]) @@ SecondPass(first, msgs, Tail(ids))

\* buildMessageTree: order is the Map's insertion order, node its entries
buildMessageTree(msgs) ==
  LET order == InsertionOrder(msgs, {})
  IN [order |-> order, node |-> SecondPass(FirstPass(msgs), msgs, order)]

\* getMessagePath: walk parentId from targetId, unshift each node
RECURSIVE PathUp(_, _, _)
PathUp(tree, currentId, fuel) ==
  IF currentId = NoId \/ currentId \notin DOMAIN tree.node \/ fuel = 0 THEN <<>>
  ELSE PathUp(tree, tree.node[currentId].parentId, fuel - 1) \o <<tree.node[currentId]>>

\* a walk that pushes each node instead of unshifting it: leaf first
getMessagePathLeafFirst(tree, targetId) ==
  LET path == PathUp(tree, targetId, Len(tree.order))
  IN [i \in 1..Len(path) |-> path[Len(path) + 1 - i]]

getMessagePath(tree, targetId) == PathUp(tree, targetId, Len(tree.order))

\* the while (true) loop of getActiveLeaf; fuel bounds the walk, and a walk
\* that outlives it has come back to a node it left
RECURSIVE Descend(_, _, _, _)
Descend(tree, sel, current, fuel) ==
  LET n == tree.node[current]
      selectedChildId == IF current \in DOMAIN sel THEN sel[current] ELSE NoId
      bySelection == IF selectedChildId # NoId /\ selectedChildId \in DOMAIN tree.node
                     THEN selectedChildId ELSE NoId
      defaultChildId == n.children[Len(n.children)]
      nextNode == IF bySelection # NoId THEN bySelection
                  ELSE IF defaultChildId \in DOMAIN tree.node THEN defaultChildId
                  ELSE NoId
  IN IF Len(n.children) = 0 THEN current
     ELSE IF nextNode = NoId THEN current
     ELSE IF fuel = 0 THEN Diverges
     ELSE Descend(tree, sel, nextNode, fuel - 1)

getActiveLeaf(tree, sel) ==
  LET roots == SelectSeq(tree.order, LAMBDA id : tree.node[id].parentId = NoId)
  IN IF Len(roots) = 0 THEN NoId
     ELSE LET rootId == IF RootKey \in DOMAIN sel THEN sel[RootKey] ELSE roots[1]
          IN IF rootId \notin DOMAIN tree.node THEN NoId
             ELSE Descend(tree, sel, rootId, Len(tree.order))

\* ids.map(id => tree.get(id)!)
RECURSIVE NodesOf(_, _)
NodesOf(tree, ids) ==
  IF Len(ids) = 0 THEN <<>> ELSE <<tree.node[Head(ids)]>> \o NodesOf(tree, Tail(ids))

getSiblings(tree, messageId) ==
  IF messageId \notin DOMAIN tree.node THEN <<>>
  ELSE LET node == tree.node[messageId]
       IN IF node.parentId = NoId
          THEN NodesOf(tree, SelectSeq(tree.order, LAMBDA id : tree.node[id].parentId = NoId))
          ELSE IF node.parentId \notin DOMAIN tree.node THEN <<node>>
          ELSE NodesOf(tree, SelectSeq(tree.node[node.parentId].children,
                                       LAMBDA id : id \in DOMAIN tree.node))

-----------------------------------------------------------------------------
(* Session controller: ChatPage                                            *)

\* the memoised values of the last render
RenderOf(msgs, sel) ==
  LET t == buildMessageTree(msgs)
      leaf == getActiveLeaf(t, sel)
  IN [tree |-> t, activeLeafId |-> leaf, activePath |-> getMessagePath(t, leaf)]

Render == RenderOf(messages, selectedBranches)

tree == Render.tree
activeLeafId == Render.activeLeafId
activePath == Render.activePath

Modes == {"standard", "assistant-regenerate", "user-regenerate"}

\* the trimmed prompt a call can carry in each mode; "" is an empty prompt
PromptsOf(mode) ==
  CASE mode = "standard" -> {"", "q"}
    [] mode = "user-regenerate" -> {"", "e"}
    [] OTHER -> {""}

\* a guard that forgets the in-flight check
SendRejectedNoStreamingCheck(mode, prompt) ==
  prompt = "" /\ mode # "assistant-regenerate"

\* if ((!prompt && mode !== 'assistant-regenerate') || isStreaming) return
SendRejected(mode, prompt) ==
  (prompt = "" /\ mode # "assistant-regenerate") \/ isStreaming

\* a sendPrompt that does not update the parent
AddChildNothing(msgs, parentId, childId) == msgs

\* currentMessages.map(m => m.id === parentId ? {...m, children: [...]} : m)
AddChild(msgs, parentId, childId) ==
  [i \in 1..Len(msgs) |->
     IF msgs[i].id = parentId
     THEN [msgs[i] EXCEPT !.children = Append(@, childId)]
     ELSE msgs[i]]

\* a node that is always made a root
NewNodeRootOnly(id, role, content, parentId) ==
  [id |-> id, role |-> role, content |-> content, parentId |-> NoId, children |-> <<>>]

\* the ChatMessage literals of sendPrompt
NewNode(id, role, content, parentId) ==
  [id |-> id, role |-> role, content |-> content, parentId |-> parentId, children |-> <<>>]

\* currentMessages.find(m => m.id === curr)
FindMsg(msgs, id) ==
  LET hits == SelectSeq(msgs, LAMBDA m : m.id = id)
  IN IF Len(hits) = 0 THEN <<>> ELSE <<hits[1]>>

\* a request that carries the new prompt only, without its history
ConversationForApiLastOnly(msgs, curr, fuel) ==
  IF curr = NoId \/ FindMsg(msgs, curr) = <<>> THEN <<>>
  ELSE <<[role |-> FindMsg(msgs, curr)[1].role, content |-> FindMsg(msgs, curr)[1].content]>>

\* the while (curr) loop that builds conversationForApi, mapped to
\* {role, content}
RECURSIVE ConversationForApi(_, _, _)
ConversationForApi(msgs, curr, fuel) ==
  IF curr = NoId \/ fuel = 0 \/ FindMsg(msgs, curr) = <<>> THEN <<>>
  ELSE LET msg == FindMsg(msgs, curr)[1]
       IN ConversationForApi(msgs, msg.parentId, fuel - 1)
          \o <<[role |-> msg.role, content |-> msg.content]>>

NewExchange ==
  [pc |-> "fetching", aborted |-> FALSE, buffer |-> <<>>, reads |-> 0, calls |-> 0]

\* lines 895-998 for a call that passed both guards: the new nodes, the
\* selection of the new branch, the request, and the state set before the
\* first await
StartExchange(withUser, prompt, parent0) ==
  LET userId == nextId
      assistantId == IF withUser THEN nextId + 1 ELSE nextId
      msgs1 == IF withUser
               THEN Append(IF parent0 # NoId THEN AddChild(messages, parent0, userId)
                           ELSE messages,
                           NewNode(userId, "user", <<prompt>>, parent0))
               ELSE messages
      sel1 == IF withUser
              THEN Put(selectedBranches, IF parent0 # NoId THEN parent0 ELSE RootKey, userId)
              ELSE selectedBranches
      parent1 == IF withUser THEN userId ELSE parent0
      msgs2 == Append(IF parent1 # NoId THEN AddChild(msgs1, parent1, assistantId) ELSE msgs1,
                      NewNode(assistantId, "assistant", <<>>, parent1))
      sel2 == IF parent1 # NoId THEN Put(sel1, parent1, assistantId) ELSE sel1
  IN [messages |-> msgs2, selectedBranches |-> sel2, assistantId |-> assistantId,
      request |-> ConversationForApi(msgs2, parent1, Len(msgs2))]

\* the state left by a sendPrompt call that reached its first await; limit
\* caps the ids generateMessageId hands out
StartedWithin(s, limit) ==
  /\ s.assistantId <= limit
  /\ messages' = s.messages
  /\ selectedBranches' = s.selectedBranches
  /\ error' = "null"
  /\ isStreaming' = TRUE
  /\ messageInfo' = Remove(messageInfo, s.assistantId)
  /\ abortRef' = s.assistantId
  /\ lastRequest' = s.request
  /\ exchanges' = Put(exchanges, s.assistantId, NewExchange)
  /\ nextId' = s.assistantId + 1
  /\ lastCall' = "started"
  /\ delivered' = <<>>
  /\ UNCHANGED <<rvars, cvars, gvars, pvars>>

\* an early return of sendPrompt
Returned(outcome) ==
  /\ lastCall' = outcome
  /\ UNCHANGED <<messages, selectedBranches, isStreaming, error, messageInfo,
                 abortRef, exchanges, nextId, lastRequest, delivered, rvars, cvars, gvars, pvars>>

\* sendPrompt(mode, {sourceIndex, overrideContent}) under one render, up to
\* its first await.  sourceIndex is a position of activePath counted from 1;
\* 0 is an absent sourceIndex.  The guard of line 889 comes before any use of
\* sourceIndex.
SendPromptWithin(render, limit) ==
  \E mode \in Modes : \E prompt \in PromptsOf(mode) :
    IF SendRejected(mode, prompt) THEN Returned("rejected")
    ELSE IF mode = "standard"
    THEN StartedWithin(StartExchange(TRUE, prompt, render.activeLeafId), limit)
    ELSE \E sourceIndex \in 0..Len(render.activePath) :
           IF \/ sourceIndex = 0
              \/ render.activePath[sourceIndex].role #
                   (IF mode = "assistant-regenerate" THEN "assistant" ELSE "user")
           THEN Returned("no-source")
           ELSE StartedWithin(StartExchange(mode # "assistant-regenerate", prompt,
                                            render.activePath[sourceIndex].parentId),
                              limit)

SendPromptIn(render) == SendPromptWithin(render, MaxNodes)

SendPrompt == SendPromptIn(Render)

\* sendPrompt in a session that lives long enough to hand out MaxTreeIds ids
SendPromptLong == SendPromptWithin(Render, MaxTreeIds)

\* stopStreaming: abortControllerRef.current?.abort()
StopStreaming ==
  /\ abortRef # NoId
  /\ abortRef \in DOMAIN exchanges
  /\ ~exchanges[abortRef].aborted
  /\ exchanges' = [exchanges EXCEPT ![abortRef].aborted = TRUE]
  /\ UNCHANGED <<messages, selectedBranches, isStreaming, error, messageInfo, abortRef,
                 nextId, lastRequest, delivered, lastCall, rvars, cvars, gvars, pvars>>

\* a finally block that leaves the marker set
finallyBlockKeepsMarker == [abortRef |-> NoId, isStreaming |-> TRUE]

\* finally { abortControllerRef.current = null; setIsStreaming(false); ... }
finallyBlock == [abortRef |-> NoId, isStreaming |-> FALSE]

\* the sendPrompt call of exchange x returns: its finally block runs
Finish(x) ==
  /\ exchanges' = Remove(exchanges, x)
  /\ abortRef' = finallyBlock.abortRef
  /\ isStreaming' = finallyBlock.isStreaming

\* a catch block that swallows every exception
FailWithSilently(x, message) ==
  /\ Finish(x)
  /\ UNCHANGED <<messages, selectedBranches, error, messageInfo, nextId, lastRequest,
                 delivered, lastCall, rvars, cvars, gvars, pvars>>

\* a catch block that takes the assistant node of the failed exchange out of
\* the list
FailWithRollback(x, message) ==
  /\ error' = message
  /\ Finish(x)
  /\ messages' = SelectSeq(messages, LAMBDA n : n.id # x)
  /\ UNCHANGED <<selectedBranches, messageInfo, nextId, lastRequest, delivered, lastCall, rvars, cvars, gvars, pvars>>

\* catch (exception): not an AbortError, so setError(message); then finally
FailWith(x, message) ==
  /\ error' = message
  /\ Finish(x)
  /\ UNCHANGED <<messages, selectedBranches, messageInfo, nextId, lastRequest, delivered, lastCall, rvars, cvars, gvars, pvars>>

\* a request made without the controller's signal
SignalReachesFetchNever(x) == FALSE

\* fetch(..., { signal: controller.signal }): an aborted signal rejects the
\* pending fetch or read with an AbortError
SignalReachesFetch(x) == exchanges[x].aborted

\* await fetch(...) resolves with an ok response that has a body
FetchOk(x) ==
  /\ exchanges[x].pc = "fetching" /\ ~SignalReachesFetch(x)
  /\ exchanges' = [exchanges EXCEPT ![x].pc = "reading"]
  /\ UNCHANGED <<messages, selectedBranches, isStreaming, error, messageInfo, abortRef,
                 nextId, lastRequest, delivered, lastCall, rvars, cvars, gvars, pvars>>

\* await fetch(...) resolves with !response.ok: readErrorMessage is awaited
FetchNotOk(x) ==
  /\ exchanges[x].pc = "fetching" /\ ~SignalReachesFetch(x)
  /\ exchanges' = [exchanges EXCEPT ![x].pc = "errbody"]
  /\ UNCHANGED <<messages, selectedBranches, isStreaming, error, messageInfo, abortRef,
                 nextId, lastRequest, delivered, lastCall, rvars, cvars, gvars, pvars>>

\* await fetch(...) resolves ok but without a body
FetchNoBody(x) ==
  /\ exchanges[x].pc = "fetching" /\ ~SignalReachesFetch(x)
  /\ FailWith(x, "Streaming is not supported in this environment.")

\* await fetch(...) rejects with a network error
FetchReject(x) ==
  /\ exchanges[x].pc = "fetching" /\ ~SignalReachesFetch(x)
  /\ FailWith(x, "Failed to fetch")

\* readErrorMessage returns: payload.error, or response.statusText when
\* response.json() rejects -- also when it rejects because of an abort, which
\* its catch swallows; sendPrompt then throws new Error(message)
ErrorBodyRead(x) ==
  /\ exchanges[x].pc = "errbody"
  /\ \E message \in (IF SignalReachesFetch(x) THEN {"Internal Server Error"}
                     ELSE {"bad request", "Internal Server Error"}) :
       FailWith(x, message)

\* the state updates of the callbacks consumeEventStream invoked, in order
ErrorCalls(calls) == SelectSeq(calls, LAMBDA c : c.cb = "error")

\* an onContent that sets the content to the delta it was handed
ApplyContentReplaces(msgs, assistantId, deltas) ==
  [i \in 1..Len(msgs) |->
     IF msgs[i].id = assistantId /\ Len(deltas) > 0
     THEN [msgs[i] EXCEPT !.content = <<deltas[Len(deltas)]>>]
     ELSE msgs[i]]

\* an onContent that appends to the node the page shows last, the active leaf
ApplyContentAtLeaf(msgs, assistantId, deltas) ==
  [i \in 1..Len(msgs) |->
     IF msgs[i].id = getActiveLeaf(buildMessageTree(msgs), selectedBranches)
     THEN [msgs[i] EXCEPT !.content = @ \o deltas]
     ELSE msgs[i]]

\* onContent: setMessages(previous => previous.map(... content + delta ...))
ApplyContent(msgs, assistantId, deltas) ==
  [i \in 1..Len(msgs) |->
     IF msgs[i].id = assistantId
     THEN [msgs[i] EXCEPT !.content = @ \o deltas]
     ELSE msgs[i]]

\* the CompletionInfo onComplete stores (the timing-derived fields aside)
InfoKeys ==
  <<<<"model", "model">>, <<"doneReason", "done_reason">>,
    <<"totalDuration", "total_duration">>, <<"loadDuration", "load_duration">>,
    <<"promptEvalCount", "prompt_eval_count">>,
    <<"promptEvalDuration", "prompt_eval_duration">>,
    <<"evalCount", "eval_count">>, <<"evalDuration", "eval_duration">>>>

CompletionInfoOf(metadata) ==
  LET present == {i \in 1..Len(InfoKeys) : Has(metadata, InfoKeys[i][2])}
      at(k) == CHOOSE i \in present : InfoKeys[i][1] = k
  IN [k \in {InfoKeys[i][1] : i \in present} |-> metadata[InfoKeys[at(k)][2]]]

\* sorted.reduce((sum, entry) => sum + (entry.info.evalCount ?? 0), 0) over
\* the entries under keys
RECURSIVE SumEvalCount(_, _)
SumEvalCount(infoRecord, keys) ==
  IF keys = {} THEN 0
  ELSE LET k == CHOOSE id \in keys : TRUE
       IN (IF Has(infoRecord[k], "evalCount") THEN infoRecord[k]["evalCount"] ELSE 0)
          + SumEvalCount(infoRecord, keys \ {k})

\* computeAnalytics(messageInfo, contextWindow): the totals over every entry
\* of the record
computeAnalytics(infoRecord) ==
  [responses |-> Cardinality(DOMAIN infoRecord),
   totalOutputTokens |-> SumEvalCount(infoRecord, DOMAIN infoRecord)]

ApplyCalls(x, calls) ==
  /\ messages' = ApplyContent(messages, x, ContentCalls(calls))
  /\ delivered' = delivered \o ContentCalls(calls)
  /\ error' = IF Len(ErrorCalls(calls)) > 0
              THEN ErrorCalls(calls)[Len(ErrorCalls(calls))].message
              ELSE error
  /\ messageInfo' = IF Len(CompleteCalls(calls)) > 0
                    THEN Put(messageInfo, x,
                             CompletionInfoOf(CompleteCalls(calls)[Len(CompleteCalls(calls))].payload))
                    ELSE messageInfo

(* SSE chunks the server side can deliver *)
FrameHi    == SSEFrame(JSONstringify("content" :> "Hi"))
FrameThere == SSEFrame(JSONstringify("content" :> " there"))
FrameError == SSEFrame(JSONstringify("error" :> "boom"))
FrameCompletion == SSEFrame(JSONstringify(CompletionFrame(LineDone)))
FrameDone  == SSEFrame(<<DoneSentinel>>)
FrameJunk  == SSEFrame(<<Junk>>)

ServerChunks ==
  { FrameHi, FrameError, FrameCompletion, FrameDone, FrameJunk,
    FrameHi \o SubSeq(FrameThere, 1, 3),
    SubSeq(FrameThere, 4, Len(FrameThere)),
    SubSeq(FrameCompletion, 1, Len(FrameCompletion) - 2) }

\* await reader.read() resolves with a chunk: the event loop runs on the
\* buffer; a terminal event makes consumeEventStream return
Drained(x, d) ==
  /\ ApplyCalls(x, d.calls)
  /\ IF d.stopped
     THEN Finish(x)
     ELSE /\ exchanges' = [exchanges EXCEPT ![x].buffer = d.buffer,
                                            ![x].reads = @ + 1,
                                            ![x].calls = @ + Len(d.calls)]
          /\ UNCHANGED <<abortRef, isStreaming>>

ReadChunk(x) ==
  /\ exchanges[x].pc = "reading" /\ ~SignalReachesFetch(x)
  /\ exchanges[x].reads < MaxReads
  /\ \E c \in ServerChunks : Drained(x, DrainEvents(exchanges[x].buffer \o c, <<>>))
  /\ UNCHANGED <<selectedBranches, nextId, lastRequest, lastCall, rvars, cvars, gvars, pvars>>

\* await reader.read() resolves with done: the trailing flush, then return
ReadDone(x) ==
  /\ exchanges[x].pc = "reading" /\ ~SignalReachesFetch(x)
  /\ ApplyCalls(x, TrailingCalls(exchanges[x].buffer))
  /\ Finish(x)
  /\ UNCHANGED <<selectedBranches, nextId, lastRequest, lastCall, rvars, cvars, gvars, pvars>>

\* await reader.read() rejects with a network error
ReadReject(x) ==
  /\ exchanges[x].pc = "reading" /\ ~SignalReachesFetch(x)
  /\ FailWith(x, "Failed to fetch")

\* the pending fetch or read rejects with an AbortError:
\* catch { if (name === 'AbortError') return } finally {...}
AbortRejects(x) ==
  /\ exchanges[x].pc \in {"fetching", "reading"} /\ SignalReachesFetch(x)
  /\ Finish(x)
  /\ UNCHANGED <<messages, selectedBranches, error, messageInfo, nextId, lastRequest, delivered,
                 lastCall, rvars, cvars, gvars, pvars>>

\* the promise a sendPrompt call is parked on settles in a way that is not
\* one more chunk
Settle ==
  \/ \E x \in DOMAIN exchanges : FetchOk(x)
  \/ \E x \in DOMAIN exchanges : FetchNotOk(x)
  \/ \E x \in DOMAIN exchanges : FetchNoBody(x)
  \/ \E x \in DOMAIN exchanges : FetchReject(x)
  \/ \E x \in DOMAIN exchanges : ErrorBodyRead(x)
  \/ \E x \in DOMAIN exchanges : ReadReject(x)
  \/ \E x \in DOMAIN exchanges : AbortRejects(x)
  \/ \E x \in DOMAIN exchanges : ReadDone(x)

\* a step of a sendPrompt call parked at an await
ExchangeStep ==
  \/ Settle
  \/ \E x \in DOMAIN exchanges : ReadChunk(x)

\* a collectIds that does not recurse into the children
CollectIdsShallow(msgs, frontier, acc) == frontier

\* a collectIds that stops at the children of the deleted node
CollectIdsOneLevel(msgs, frontier, acc) ==
  frontier \cup {msgs[i].id : i \in {j \in 1..Len(msgs) : msgs[j].parentId \in frontier}}

\* deleteMessage(index): the node at activePath[index] and its subtree
RECURSIVE CollectIds(_, _, _)
CollectIds(msgs, frontier, acc) ==
  IF frontier = {} THEN acc
  ELSE LET kids == {msgs[i].id : i \in {j \in 1..Len(msgs) : msgs[j].parentId \in frontier}}
       IN CollectIds(msgs, kids \ (acc \cup frontier), acc \cup frontier)

\* a delete that leaves the deleted id in its parent's children
WithoutSubtreeKeepsChild(messageToDelete, idsToDelete) ==
  SelectSeq(messages, LAMBDA m : m.id \notin idsToDelete)

\* newMessages: the subtree filtered out, and the deleted id taken out of
\* its parent's children
WithoutSubtree(messageToDelete, idsToDelete) ==
  LET kept == SelectSeq(messages, LAMBDA m : m.id \notin idsToDelete)
  IN IF messageToDelete.parentId # NoId
     THEN [i \in 1..Len(kept) |->
             IF kept[i].id = messageToDelete.parentId
             THEN [kept[i] EXCEPT !.children =
                     SelectSeq(@, LAMBDA c : c # messageToDelete.id)]
             ELSE kept[i]]
     ELSE kept

DeleteMessageIn(path) ==
  \E index \in 1..Len(path) :
    /\ messages' = WithoutSubtree(path[index], CollectIds(messages, {path[index].id}, {}))
    /\ UNCHANGED <<selectedBranches, isStreaming, error, messageInfo, abortRef,
                   exchanges, nextId, lastRequest, delivered, lastCall, rvars, cvars, gvars, pvars>>

DeleteMessage == DeleteMessageIn(Render.activePath)

\* the sibling navigateBranch selects: siblings[(currentIndex +- 1) mod n]
NextSibling(siblings, message, direction) ==
  LET n == Len(siblings)
      currentIndex == CHOOSE i \in 1..n : siblings[i].id = message.id
      nextIndex == IF direction = "next" THEN (currentIndex % n) + 1
                   ELSE ((currentIndex - 2 + n) % n) + 1
  IN siblings[nextIndex]

Selected(nextMessage) ==
  /\ selectedBranches' =
       Put(selectedBranches,
           IF nextMessage.parentId # NoId THEN nextMessage.parentId ELSE RootKey,
           nextMessage.id)
  /\ UNCHANGED <<messages, isStreaming, error, messageInfo, abortRef, exchanges,
                 nextId, lastRequest, delivered, lastCall, rvars, cvars, gvars, pvars>>

Navigated(siblings, message, direction) ==
  /\ Len(siblings) > 1
  /\ \E i \in 1..Len(siblings) : siblings[i].id = message.id
  /\ Selected(NextSibling(siblings, message, direction))

\* navigateBranch(message, direction) for a message of the active path
NavigateBranchIn(render) ==
  \E index \in 1..Len(render.activePath) : \E direction \in {"prev", "next"} :
    Navigated(getSiblings(render.tree, render.activePath[index].id),
              render.activePath[index], direction)

NavigateBranch == NavigateBranchIn(Render)

SessionInit ==
  /\ messages = <<>>
  /\ selectedBranches = <<>>
  /\ isStreaming = FALSE
  /\ error = "null"
  /\ messageInfo = <<>>
  /\ abortRef = NoId
  /\ exchanges = <<>>
  /\ nextId = 1
  /\ lastRequest = <<>>
  /\ lastCall = "none"
  /\ delivered = <<>>

SessionNext ==
  \/ SendPrompt
  \/ StopStreaming
  \/ ExchangeStep
  \/ DeleteMessage
  \/ NavigateBranch

-----------------------------------------------------------------------------
(* Stream consumer actions: one consumeEventStream call on its own, with   *)
(* callbacks that only record that they were invoked                       *)

(* SSE payloads and the chunks a stream can deliver *)
ConsumerPayloads ==
  { JSONstringify("content" :> "Hi"),
    JSONstringify("error" :> "boom"),
    JSONstringify(CompletionFrame(LineDone)),
    JSONstringify(CompletionFrame(LineDoneMsg)),
    JSONstringify("error" :> "boom" @@ "done" :> TRUE),
    <<DoneSentinel>>,
    <<Junk>> }

\* an event without its delimiter
OpenFrame(payload) == <<DataPrefix, SP>> \o payload

ConsumerChunks ==
  {SSEFrame(p) : p \in ConsumerPayloads}
  \cup {OpenFrame(p) : p \in ConsumerPayloads}
  \cup { <<NL, NL>>, <<NL>>, FrameDone \o FrameHi }

\* buffer += decoder.decode(value); the event loop runs on the buffer
ConsumerDrained(c, d) ==
  /\ cBuffer' = d.buffer
  /\ cCalls' = d.calls
  /\ cPc' = IF d.stopped THEN "returned" ELSE "reading"
  /\ cText' = cText \o c
  /\ cReads' = cReads + 1
  /\ UNCHANGED <<cUnread, rvars, svars, gvars, pvars>>

\* await reader.read() resolves with a chunk
ConsumerRead ==
  /\ cPc = "reading"
  /\ cReads < MaxConsumerReads
  /\ \E c \in ConsumerChunks : ConsumerDrained(c, DrainEvents(cBuffer \o c, cCalls))

\* await reader.read() resolves with done: break, then the trailing flush
ConsumerReadDone ==
  /\ cPc = "reading"
  /\ cCalls' = cCalls \o TrailingCalls(cBuffer)
  /\ cPc' = "ended"
  /\ UNCHANGED <<cBuffer, cText, cReads, cUnread, rvars, svars, gvars, pvars>>

\* the call has returned at a terminal event; the reader is neither read
\* again nor cancelled, and chunks that still arrive stay in the stream
ConsumerUnread ==
  /\ cPc = "returned"
  /\ Len(cUnread) < MaxUnread
  /\ \E c \in ConsumerChunks : cUnread' = Append(cUnread, c)
  /\ UNCHANGED <<cPc, cBuffer, cCalls, cText, cReads, rvars, svars, gvars, pvars>>

ConsumerInit ==
  /\ cPc = "reading"
  /\ cBuffer = <<>>
  /\ cCalls = <<>>
  /\ cText = <<>>
  /\ cReads = 0
  /\ cUnread = <<>>

ConsumerNext ==
  \/ ConsumerRead
  \/ ConsumerReadDone
  \/ ConsumerUnread

-----------------------------------------------------------------------------
(* Active-path resolver on its own: getActiveLeaf and getMessagePath applied *)
(* to a tree and a selection map that need not come from one session       *)

\* flat lists of n nodes with ids 1..n in creation order, every parent
\* created before its children
Forests(n) ==
  LET parents == {f \in [1..n -> 0..n] : \A i \in 1..n : f[i] < i}
  IN {[i \in 1..n |-> NewNode(i, IF i % 2 = 1 THEN "user" ELSE "assistant", <<>>, f[i])]
        : f \in parents}

\* selection maps over the keys 'root' and 1..n: any key may be absent, and
\* any key may name any id
SelectionMaps(n) ==
  LET raw == [({RootKey} \cup 1..n) -> ({NoId} \cup 1..n)]
  IN {[k \in {j \in DOMAIN f : f[j] # NoId} |-> f[k]] : f \in raw}

ResolverInit ==
  /\ gPc = "input"
  /\ \E n \in 0..MaxForest :
       /\ gMsgs \in Forests(n)
       /\ gSel \in SelectionMaps(n)
  /\ gLeaf = NoId
  /\ gPath = <<>>
  /\ gTree = buildMessageTree(<<>>)
  /\ gFirst = buildMessageTree(<<>>)
  /\ gQuery = NoId
  /\ gSiblings = <<>>

\* the resolver before any call: the empty tree and the empty selection
ResolverIdle ==
  /\ gPc = "input"
  /\ gMsgs = <<>>
  /\ gSel = <<>>
  /\ gLeaf = NoId
  /\ gPath = <<>>
  /\ gTree = buildMessageTree(<<>>)
  /\ gFirst = buildMessageTree(<<>>)
  /\ gQuery = NoId
  /\ gSiblings = <<>>

Resolved(render) ==
  /\ gLeaf' = render.activeLeafId
  /\ gPath' = IdsOfSeq(render.activePath)
  /\ gPc' = "resolved"
  /\ UNCHANGED <<gMsgs, gSel, gTree, gFirst, gQuery, gSiblings, rvars, svars, cvars, pvars>>

\* getMessagePath(tree, getActiveLeaf(tree, selection))
Resolve ==
  /\ gPc = "input"
  /\ Resolved(RenderOf(gMsgs, gSel))

-----------------------------------------------------------------------------
(* buildMessageTree and getSiblings on their own, on flat lists that need   *)
(* not come from a session: a record may name a parent that is not in the  *)
(* list, and two records may carry the same id                             *)

\* flat lists of up to MaxFlat records: ids 1..MaxFlat, a parentId that is
\* absent or a smaller id, and a content that goes with the role
FlatLists ==
  LET records ==
        {NewNode(id, role, IF role = "user" THEN <<"q">> ELSE <<"Hi">>, parentId) :
           id \in 1..MaxFlat, parentId \in 0..(MaxFlat - 1), role \in {"user", "assistant"}}
  IN UNION {[1..n -> {r \in records : r.parentId < r.id}] : n \in 0..MaxFlat}

\* one flat list, and a selection map that is empty or holds the key 'root'
BuildInit ==
  /\ gPc = "input"
  /\ gMsgs \in FlatLists
  /\ gSel \in {<<>>} \cup {(RootKey :> id) : id \in 1..MaxFlat}
  /\ gLeaf = NoId
  /\ gPath = <<>>
  /\ gTree = buildMessageTree(<<>>)
  /\ gFirst = buildMessageTree(<<>>)
  /\ gQuery = NoId
  /\ gSiblings = <<>>

\* buildMessageTree(messages)
Build ==
  /\ gPc = "input"
  /\ gTree' = buildMessageTree(gMsgs)
  /\ gPc' = "built"
  /\ UNCHANGED <<gMsgs, gSel, gLeaf, gPath, gFirst, gQuery, gSiblings, rvars, svars, cvars, pvars>>

\* buildMessageTree(Array.from(tree.values())) on the tree just built
Rebuild ==
  /\ gPc = "built"
  /\ gFirst' = gTree
  /\ gTree' = buildMessageTree(NodesOf(gTree, gTree.order))
  /\ gPc' = "rebuilt"
  /\ UNCHANGED <<gMsgs, gSel, gLeaf, gPath, gQuery, gSiblings, rvars, svars, cvars, pvars>>

\* getSiblings(tree, messageId) for an id that is or is not in the tree
Siblings ==
  /\ gPc = "built"
  /\ \E messageId \in 1..(MaxFlat + 1) :
       /\ gQuery' = messageId
       /\ gSiblings' = IdsOfSeq(getSiblings(gTree, messageId))
  /\ gPc' = "queried"
  /\ UNCHANGED <<gMsgs, gSel, gLeaf, gPath, gTree, gFirst, rvars, svars, cvars, pvars>>

\* getMessagePath(tree, targetId) for an id that is undefined (NoId), in the
\* tree or not in the tree
Path ==
  /\ gPc = "built"
  /\ \E targetId \in 0..(MaxFlat + 1) :
       /\ gQuery' = targetId
       /\ gPath' = IdsOfSeq(getMessagePath(gTree, targetId))
  /\ gPc' = "walked"
  /\ UNCHANGED <<gMsgs, gSel, gLeaf, gTree, gFirst, gSiblings, rvars, svars, cvars, pvars>>

-----------------------------------------------------------------------------
(* Bytes.  A body arrives as chunks of bytes and is decoded into text.     *)
(* Every token above is ASCII and its bytes stay together.  A member       *)
(* "k":v whose string holds the two-byte character U+00E9 is two units:    *)
(* Lead(k, v), its bytes up to and with the first byte of the character,   *)
(* and Cont(k, v), the second byte of the character and the rest.          *)

EAcute == "[C3 A9]"
Replaced == "[U+FFFD][U+FFFD]"

Lead(k, v) == [t |-> "lead", k |-> k, v |-> v]
Cont(k, v) == [t |-> "cont", k |-> k, v |-> v]

\* the text of a lead byte decoded without its continuation and of a
\* continuation byte decoded without its lead: U+FFFD in place of the byte
LeadReplaced(k, v) == [t |-> "lead as U+FFFD", k |-> k, v |-> v]
ContReplaced(k, v) == [t |-> "cont as U+FFFD", k |-> k, v |-> v]

\* the members the upstream lines and the frames carry a delta in
HoldsEAcute(tok) ==
  /\ tok.t = "fld"
  /\ \/ tok.k = "content" /\ tok.v = EAcute
     \/ tok.k = "message" /\ Has(tok.v, "content") /\ tok.v["content"] = EAcute

\* the value with one U+FFFD for each byte of the character
Garbled(k, v) == IF k = "message" THEN [v EXCEPT !["content"] = Replaced] ELSE Replaced

\* UTF-8 encoding of a text: what reply.raw.write and the upstream put on
\* the wire
RECURSIVE Encode(_)
Encode(text) ==
  IF Len(text) = 0 THEN <<>>
  ELSE (IF HoldsEAcute(text[1])
        THEN <<Lead(text[1].k, text[1].v), Cont(text[1].k, text[1].v)>>
        ELSE <<text[1]>>) \o Encode(Tail(text))

\* Buffer.prototype.toString(): each chunk is decoded on its own, and bytes
\* that are not a whole character become U+FFFD
RECURSIVE toString(_)
toString(b) ==
  IF Len(b) = 0 THEN <<>>
  ELSE IF b[1].t = "lead"
       THEN IF Len(b) >= 2 /\ b[2] = Cont(b[1].k, b[1].v)
            THEN <<Fld(b[1].k, b[1].v)>> \o toString(SubSeq(b, 3, Len(b)))
            ELSE <<LeadReplaced(b[1].k, b[1].v)>> \o toString(Tail(b))
  ELSE IF b[1].t = "cont"
       THEN <<ContReplaced(b[1].k, b[1].v)>> \o toString(Tail(b))
  ELSE <<b[1]>> \o toString(Tail(b))

\* buffer += text: where the two halves of a member meet, the member is
\* whole again, with the replaced characters in its string
Concat(buffer, text) ==
  IF /\ Len(buffer) > 0
     /\ Len(text) > 0
     /\ buffer[Len(buffer)].t = "lead as U+FFFD"
     /\ text[1] = ContReplaced(buffer[Len(buffer)].k, buffer[Len(buffer)].v)
  THEN SubSeq(buffer, 1, Len(buffer) - 1)
       \o <<Fld(text[1].k, Garbled(text[1].k, text[1].v))>>
       \o Tail(text)
  ELSE buffer \o text

\* decoder.decode(value, { stream: true }): the bytes of an unfinished
\* character at the end of a chunk are held back for the next call
decodeStream(held, value) ==
  LET b == held \o value
  IN IF Len(b) > 0 /\ b[Len(b)].t = "lead"
     THEN [text |-> toString(SubSeq(b, 1, Len(b) - 1)), held |-> <<b[Len(b)]>>]
     ELSE [text |-> toString(b), held |-> <<>>]

\* the for-await loop of eventSourceFactory and the trailing flush, on an
\* upstream that delivers the given chunks and ends: the payloads yielded
RECURSIVE RelayYields(_, _, _)
RelayYields(chunks, buffer, evs) ==
  IF Len(chunks) = 0 THEN evs \o FlushTrailing(buffer)
  ELSE LET d == DrainLines(Concat(buffer, toString(Head(chunks))), evs)
       IN RelayYields(Tail(chunks), d.buffer, d.events)

\* consumeEventStream on a body that delivers the given chunks and ends:
\* the callbacks invoked
RECURSIVE ConsumeBytes(_, _, _, _)
ConsumeBytes(chunks, held, buffer, calls) ==
  IF Len(chunks) = 0 THEN calls \o TrailingCalls(buffer)
  ELSE LET dec == decodeStream(held, Head(chunks))
           d == DrainEvents(Concat(buffer, dec.text), calls)
       IN IF d.stopped THEN d.calls
          ELSE ConsumeBytes(Tail(chunks), dec.held, d.buffer, d.calls)

MaxCuts == 2

LineAccent == ("message" :> ("content" :> EAcute) @@ "done" :> FALSE)

\* byte streams: one or two of an upstream line, a frame, a piece of either
ByteStreams ==
  LET pieces == { Encode(JSONstringify(LineAccent) \o <<NL>>),
                  JSONstringify(LineDone) \o <<NL>>,
                  JSONstringify(LineHi),
                  <<Junk, NL>>,
                  Encode(SSEFrame(JSONstringify("content" :> EAcute))),
                  SSEFrame(JSONstringify("error" :> "boom")),
                  SSEFrame(JSONstringify(CompletionFrame(LineDone))),
                  SSEFrame(<<DoneSentinel>>),
                  <<DataPrefix, SP>> \o JSONstringify("content" :> "Hi") }
  IN pieces \cup {a \o b : a \in pieces, b \in pieces}

\* the stream cut after each position of cuts
RECURSIVE Chunked(_, _)
Chunked(stream, cuts) ==
  IF cuts = {} THEN <<stream>>
  ELSE LET i == CHOOSE c \in cuts : \A d \in cuts : c <= d
       IN <<SubSeq(stream, 1, i)>>
          \o Chunked(SubSeq(stream, i + 1, Len(stream)), {d - i : d \in cuts \ {i}})

\* the bytes of the chunks, in order
RECURSIVE Whole(_)
Whole(chunks) == IF Len(chunks) = 0 THEN <<>> ELSE Head(chunks) \o Whole(Tail(chunks))

ChunksIdle ==
  /\ pPc = "idle"
  /\ pChunks = <<>>
  /\ pOut = <<>>

\* one byte stream, cut at up to MaxCuts places into chunks that are not empty
ChunksInit ==
  /\ pPc = "input"
  /\ pChunks \in UNION {{Chunked(s, {f[x] : x \in 1..MaxCuts} \ {0}) :
                           f \in [1..MaxCuts -> 0..(Len(s) - 1)]} : s \in ByteStreams}
  /\ pOut = <<>>

\* the relay reads the chunks from the upstream
RelayParse ==
  /\ pPc = "input"
  /\ pOut' = RelayYields(pChunks, <<>>, <<>>)
  /\ pPc' = "relayed"
  /\ UNCHANGED <<pChunks, rvars, svars, cvars, gvars>>

\* the consumer reads the chunks from the response body
ConsumerParse ==
  /\ pPc = "input"
  /\ pOut' = ConsumeBytes(pChunks, <<>>, <<>>, <<>>)
  /\ pPc' = "consumed"
  /\ UNCHANGED <<pChunks, rvars, svars, cvars, gvars>>

-----------------------------------------------------------------------------
(* Specifications *)

Init == RelayInit /\ SessionInit /\ ConsumerInit /\ ResolverIdle /\ ChunksIdle

\* the relay serving one POST /chat
SpecRelay == Init /\ [][RelayNext]_vars

\* one chat page
SpecSession == Init /\ [][SessionNext]_vars

\* a longer chat page whose responses carry no chunk: every exchange ends at
\* the fetch, at the error body or at the first read
TreeNext ==
  \/ SendPromptLong
  \/ StopStreaming
  \/ Settle
  \/ DeleteMessage
  \/ NavigateBranch

SpecTree == Init /\ [][TreeNext]_vars

\* one consumeEventStream call
SpecConsumer == Init /\ [][ConsumerNext]_vars

\* one resolve of a tree and a selection map
InitResolver == RelayInit /\ SessionInit /\ ConsumerInit /\ ResolverInit /\ ChunksIdle

SpecResolver == InitResolver /\ [][Resolve]_vars

\* the tree functions applied to one flat list
InitBuild == RelayInit /\ SessionInit /\ ConsumerInit /\ BuildInit /\ ChunksIdle

SpecBuild == InitBuild /\ [][Build \/ Rebuild \/ Siblings \/ Path \/ Resolve]_vars

\* the relay, where an aborted axios request is rejected and the for-await
\* loop over a destroyed upstream throws
FairRelay == SpecRelay /\ WF_vars(AxiosCancelled) /\ WF_vars(UpstreamDestroyed)

\* the chat page, where a pending fetch or read does not stay pending for
\* ever and a body is a finite number of chunks
FairSession == SpecSession /\ WF_vars(Settle)

\* the two parsers on one byte stream delivered in chunks
InitChunks == RelayInit /\ SessionInit /\ ConsumerInit /\ ResolverIdle /\ ChunksInit

SpecChunks == InitChunks /\ [][RelayParse \/ ConsumerParse]_vars

-----------------------------------------------------------------------------
(* Relay and round-trip properties *)

\* the payloads written from upstream lines: everything but the frame the
\* catch block wrote
UpstreamFrames ==
  IF rCause \in {"transport", "cancel"} /\ ReportsError(rErrName)
  THEN SubSeq(rWritten, 1, Len(rWritten) - 1)
  ELSE rWritten

IsErrorPayload(w) == JSONparse(w).ok /\ Has(JSONparse(w).val, "error")

ErrorFrameCount == Cardinality({i \in 1..Len(rWritten) : IsErrorPayload(rWritten[i])})

\* the objects of the upstream lines JSON.parse accepts, in order
ParsedLines(text) ==
  LET segs == SplitOnNL(text)
      good == SelectSeq(segs, LAMBDA l : JSONparse(Trim(l)).ok)
  IN [i \in 1..Len(good) |-> JSONparse(Trim(good[i])).val]

\* the deltas the relay derives from the lines' message.content
RelayDeltas(text) ==
  LET withContent == SelectSeq(ParsedLines(text), HasContent)
  IN [i \in 1..Len(withContent) |-> withContent[i]["message"]["content"]]

\* a complete upstream body: one terminal line, and it is the last line
AcceptedInput(text) ==
  LET ls == ParsedLines(text)
  IN /\ Len(ls) > 0
     /\ IsDone(ls[Len(ls)])
     /\ \A i \in 1..(Len(ls) - 1) : ~IsDone(ls[i])

MetadataKeys ==
  {"done_reason", "total_duration", "load_duration", "prompt_eval_count",
   "prompt_eval_duration", "eval_count", "eval_duration", "model"}

\* the consumer's callbacks when it is fed exactly what the relay wrote
RoundTripCalls ==
  ConsumeChunks([i \in 1..Len(rWritten) |-> SSEFrame(rWritten[i])], <<>>, <<>>)

\* C1: for a complete upstream body the consumer, fed the relay's output,
\* invokes the content callback with exactly the deltas the relay derived
\* from the lines' message.content, and the completion callback exactly once
\* with the terminal line's metadata values.
C1_RoundTrip ==
  (rCause = "end" /\ AcceptedInput(rConsumed)) =>
    LET calls == RoundTripCalls
        ls == ParsedLines(rConsumed)
        term == ls[Len(ls)]
        done == CompleteCalls(calls)
    IN /\ ContentCalls(calls) = RelayDeltas(rConsumed)
       /\ Len(done) = 1
       /\ \A k \in MetadataKeys :
            /\ Has(done[1].payload, k) <=> Has(term, k)
            /\ Has(term, k) => done[1].payload[k] = term[k]

\* C6: once the client connection has closed, no further upstream chunk is
\* pulled and no further frame is made from upstream text; while the exchange
\* is still in flight after the close, the upstream request is aborted and the
\* upstream stream, if there is one, is destroyed.
C6_CloseStopsUpstream ==
  /\ [](rClosed /\ rPc # "ended" => rAborted /\ rUpstream # "open")
  /\ [][rClosed => /\ rPulled' = rPulled
                   /\ rConsumed' = rConsumed
                   /\ UpstreamFrames' = UpstreamFrames]_vars

C6_Witness ==
  /\ rClosed /\ rAborted /\ rUpstream = "destroyed"
  /\ rPulled > 0 /\ rPulled < MaxChunks
  /\ rCause = "cancel" /\ rPc = "ended"

\* C7: an upstream transport failure that is not a client cancel leaves exactly
\* one error frame, written last, and the response ended; nothing is written
\* once the response has ended.
C7_TransportErrorFrame ==
  /\ [](rCause = "transport" =>
          /\ ErrorFrameCount = 1
          /\ IsErrorPayload(rWritten[Len(rWritten)])
          /\ rEnded = 1 /\ rPc = "ended")
  /\ [][rPc = "ended" => rWritten' = rWritten /\ rEnded' = rEnded]_vars

C7_Witness ==
  /\ rCause = "transport" /\ rPulled > 0 /\ Len(rWritten) > 1
  /\ rEnded = 1 /\ ~rClosed

\* C32: the response is not left open: the step in which the upstream body
\* ends or fails, or in which the abort is seen, ends the response; an abort
\* is always followed by the end of the response; and the response is ended
\* once at most.
C32_ResponseEndedOnce ==
  /\ [](rEnded <= 1)
  /\ [](rCause # "none" <=> rEnded = 1)
  /\ [][rCause' # rCause => rEnded' = 1 /\ rPc' = "ended"]_vars
  /\ (rAborted ~> rEnded = 1)
  /\ (rUpstream = "destroyed" ~> rEnded = 1)

\* the client closed while the axios request was pending, and the response
\* has been ended
C32_Witness ==
  /\ rAborted /\ rUpstream = "null" /\ rPulled = 0
  /\ rCause = "cancel" /\ rEnded = 1

\* C8: a cancel caused by the client closing the connection produces no error
\* frame.
C8_NoErrorFrameOnCancel ==
  rCause = "cancel" => ErrorFrameCount = 0

\* C9: the [DONE] sentinel follows the completion frame, is written at most
\* once, and no frame of any kind is written after it.
C9_DoneIsLast ==
  \A i \in 1..Len(rWritten) :
    rWritten[i] = <<DoneSentinel>> =>
      /\ i = Len(rWritten)
      /\ i > 1
      /\ JSONparse(rWritten[i - 1]).ok
      /\ IsDone(JSONparse(rWritten[i - 1]).val)

\* the upstream text with the lines JSON.parse rejects taken out; the
\* unterminated tail is a line only when the body has ended
LineIsMalformed(l) == Len(Trim(l)) > 0 /\ ~JSONparse(Trim(l)).ok

WithoutMalformed(text, ended) ==
  LET segs == SplitOnNL(text)
      n == Len(segs)
      keep == {i \in 1..n : IF i = n /\ ~ended THEN TRUE ELSE ~LineIsMalformed(segs[i])}
      kept == SelectSeq([i \in 1..n |-> [i |-> i, l |-> segs[i]]], LAMBDA e : e.i \in keep)
  IN IF n \in keep
     THEN JoinNL([i \in 1..Len(kept) |-> kept[i].l])
     ELSE JoinNL([i \in 1..Len(kept) |-> kept[i].l]) \o (IF Len(kept) > 0 THEN <<NL>> ELSE <<>>)

\* the frames of the line loop on a whole text, with the trailing flush when
\* the body has ended
RelayFrames(text, ended) ==
  LET d == DrainLines(text, <<>>)
  IN d.events \o (IF ended THEN FlushTrailing(d.buffer) ELSE <<>>)

HasMalformedLine(text) ==
  LET segs == SplitOnNL(text)
  IN \E i \in 1..(Len(segs) - 1) : LineIsMalformed(segs[i])

\* C10: a malformed upstream line produces no frame and does not disturb the
\* others: the frames written from upstream text are those the relay makes
\* from the same text with the malformed lines removed.
C10_MalformedLineSkipped ==
  UpstreamFrames = RelayFrames(WithoutMalformed(rConsumed, rCause = "end"), rCause = "end")

C10_Witness ==
  /\ rCause = "end"
  /\ HasMalformedLine(rConsumed)
  /\ Len(rWritten) = 2
  /\ rConsumed[Len(rConsumed) - 1] # Junk
  /\ rConsumed[1] # Junk

\* the completion frames written, parsed back into objects
CompletionPayloads(written) ==
  LET done == SelectSeq(written, LAMBDA w : JSONparse(w).ok /\ IsDone(JSONparse(w).val))
  IN [i \in 1..Len(done) |-> JSONparse(done[i]).val]

\* the terminal objects of the upstream body, in order
TerminalObjects(text) == SelectSeq(ParsedLines(text), IsDone)

\* C11: the completion frame is the upstream terminal object verbatim: for a
\* body read to its end, the completion frames written are, member for member
\* and value for value, the terminal objects of the body, none dropped and
\* none added.
C11_CompletionVerbatim ==
  rCause = "end" => CompletionPayloads(rWritten) = TerminalObjects(rConsumed)

-----------------------------------------------------------------------------
(* Consumer properties *)

\* the text cut at every event delimiter, leftmost first; the last piece is
\* the unterminated rest
RECURSIVE SplitOnBoundary(_)
SplitOnBoundary(s) ==
  LET i == IndexOfBoundary(s)
  IN IF i = 0 THEN <<s>>
     ELSE <<SubSeq(s, 1, i - 1)>> \o SplitOnBoundary(SubSeq(s, i + 2, Len(s)))

\* the payloads of the delimited events of a text, in order
RECURSIVE DataOf(_)
DataOf(pieces) ==
  IF Len(pieces) = 0 THEN <<>>
  ELSE <<extractEventData(Trim(Head(pieces)))>> \o DataOf(Tail(pieces))

DelimitedEvents(text) ==
  LET pieces == SplitOnBoundary(text)
  IN DataOf(SubSeq(pieces, 1, Len(pieces) - 1))

\* what an event payload is: "empty", "sentinel", "malformed", "error",
\* "done" or "plain"
KindOf(data) ==
  IF data = <<>> THEN "empty"
  ELSE IF data = <<DoneSentinel>> THEN "sentinel"
  ELSE IF ~JSONparse(data).ok THEN "malformed"
  ELSE IF IsError(JSONparse(data).val) THEN "error"
  ELSE IF IsDone(JSONparse(data).val) THEN "done"
  ELSE "plain"

TerminalKinds == {"sentinel", "error", "done"}

\* the deltas of the first k events
RECURSIVE DeltasUpTo(_, _)
DeltasUpTo(evs, k) ==
  IF k = 0 THEN <<>>
  ELSE DeltasUpTo(evs, k - 1)
       \o (IF KindOf(evs[k]) \in {"done", "plain"} /\ HasDelta(JSONparse(evs[k]).val)
           THEN <<DeltaOf(JSONparse(evs[k]).val)>> ELSE <<>>)

\* C12: the consumer returns at the first terminal event and only there: a
\* [DONE] payload invokes nothing, an error payload invokes the error callback
\* once, a done payload invokes the completion callback once with the whole
\* parsed payload; the terminal callback is the last callback, and the deltas
\* delivered are those of the events up to the terminal one, so nothing is
\* invoked for an event after it, in the same chunk or in a later one.
C12_StopsAtFirstTerminal ==
  LET evs == DelimitedEvents(cText)
      terminals == {i \in 1..Len(evs) : KindOf(evs[i]) \in TerminalKinds}
  IN /\ (cPc = "returned") <=> (terminals # {})
     /\ terminals # {} =>
          LET k == CHOOSE i \in terminals : \A j \in terminals : i <= j
              kind == KindOf(evs[k])
          IN /\ ContentCalls(cCalls) = DeltasUpTo(evs, k)
             /\ kind = "sentinel" =>
                  ErrorCalls(cCalls) = <<>> /\ CompleteCalls(cCalls) = <<>>
             /\ kind = "error" =>
                  /\ ErrorCalls(cCalls) = <<OnServerError(JSONparse(evs[k]).val["error"])>>
                  /\ CompleteCalls(cCalls) = <<>>
                  /\ cCalls[Len(cCalls)].cb = "error"
             /\ kind = "done" =>
                  /\ CompleteCalls(cCalls) = <<OnComplete(JSONparse(evs[k]).val)>>
                  /\ ErrorCalls(cCalls) = <<>>
                  /\ cCalls[Len(cCalls)].cb = "complete"

\* the call returned at [DONE] after a delta was delivered, with a content
\* event of the same chunk left in the buffer and a later chunk in the stream
C12_Witness ==
  /\ cPc = "returned"
  /\ Len(ContentCalls(cCalls)) > 0
  /\ cBuffer = FrameHi
  /\ Len(cUnread) > 0

\* Array.prototype.join('\n\n')
RECURSIVE JoinBoundary(_)
JoinBoundary(pieces) ==
  IF Len(pieces) = 0 THEN <<>>
  ELSE IF Len(pieces) = 1 THEN pieces[1]
  ELSE pieces[1] \o <<NL, NL>> \o JoinBoundary(Tail(pieces))

IsMalformedEvent(piece) == KindOf(extractEventData(Trim(piece))) = "malformed"

\* the pieces with every malformed event emptied; the unterminated rest is an
\* event only when the stream has ended
RECURSIVE BlankMalformed(_, _)
BlankMalformed(pieces, ended) ==
  IF Len(pieces) = 0 THEN <<>>
  ELSE <<IF IsMalformedEvent(Head(pieces)) /\ (Len(pieces) > 1 \/ ended)
         THEN <<>> ELSE Head(pieces)>>
       \o BlankMalformed(Tail(pieces), ended)

\* the callbacks of the event loop on a whole text, with the trailing flush
\* when the stream has ended
ConsumerCallsOn(text, ended) ==
  LET d == DrainEvents(text, <<>>)
  IN IF d.stopped \/ ~ended THEN d.calls ELSE d.calls \o TrailingCalls(d.buffer)

\* every event of the text is empty or malformed
OnlyMalformed(text, ended) ==
  LET pieces == SplitOnBoundary(text)
  IN \A i \in 1..Len(pieces) :
       (i < Len(pieces) \/ ended) =>
         KindOf(extractEventData(Trim(pieces[i]))) \in {"empty", "malformed"}

\* C13: a malformed payload is swallowed: the callbacks invoked are those the
\* consumer invokes on the same text with every malformed event emptied, so a
\* malformed event invokes nothing and the events after it are delivered; a
\* text of malformed events only never makes the call return early and ends
\* with no callback at all, the error callback included.
C13_MalformedEventSwallowed ==
  /\ cCalls = ConsumerCallsOn(JoinBoundary(BlankMalformed(SplitOnBoundary(cText),
                                                          cPc = "ended")),
                              cPc = "ended")
  /\ OnlyMalformed(cText, cPc = "ended") => cPc # "returned" /\ cCalls = <<>>

\* a stream of a malformed event, a content event and a malformed
\* unterminated rest has ended with the one delta delivered
C13_Witness ==
  /\ cPc = "ended"
  /\ cText = FrameJunk \o FrameHi \o OpenFrame(<<Junk>>)
  /\ cCalls = <<OnContent("Hi")>>

\* C14: the trailing flush treats an unterminated last event as the event
\* loop treats a delimited one: a stream that has ended leaves the callbacks
\* the consumer invokes on the same text with the delimiter appended.
C14_FlushLikeLoop ==
  cPc = "ended" => cCalls = ConsumerCallsOn(cText \o <<NL, NL>>, TRUE)

-----------------------------------------------------------------------------
(* Session properties *)

\* the content of the node an exchange streams into; <<>> once it is deleted
NodeContent(msgs, id) ==
  IF FindMsg(msgs, id) = <<>> THEN <<>> ELSE FindMsg(msgs, id)[1].content

\* C2: at most one exchange is in flight in every reachable state, and while
\* one is outstanding no sendPrompt call of any mode creates a node, issues a
\* request or leaves a second exchange behind.
C2_OneExchangeInFlight ==
  /\ [](/\ Cardinality(DOMAIN exchanges) <= 1
        /\ (isStreaming <=> DOMAIN exchanges # {}))
  /\ [][isStreaming => /\ Ids(messages') \subseteq Ids(messages)
                       /\ nextId' = nextId
                       /\ lastRequest' = lastRequest
                       /\ DOMAIN exchanges' \subseteq DOMAIN exchanges]_vars

\* a sendPrompt call returned at the guard while an exchange was outstanding
C2_Witness ==
  /\ isStreaming
  /\ lastCall = "rejected"
  /\ Cardinality(DOMAIN exchanges) = 1

\* C3: every exchange that set the in-flight marker eventually clears it,
\* however it ends, and the abort-controller reference is cleared in the same
\* step.
C3_MarkerEventuallyCleared ==
  /\ [](isStreaming => <>(~isStreaming /\ abortRef = NoId))
  /\ [][isStreaming /\ DOMAIN exchanges' = {} => ~isStreaming' /\ abortRef' = NoId]_vars
  /\ [][isStreaming /\ ~isStreaming' => abortRef' = NoId /\ DOMAIN exchanges' = {}]_vars

\* an exchange was started, was aborted or failed or completed, and is over
C3_Witness ==
  /\ lastCall = "started"
  /\ ~isStreaming
  /\ abortRef = NoId
  /\ DOMAIN exchanges = {}

\* C4: once stopStreaming has aborted the in-flight request, the error state
\* keeps the value it had just before the abort.
C4_AbortKeepsError ==
  [][(\E x \in DOMAIN exchanges : exchanges[x].aborted) => error' = error]_vars

\* C5: after an abort issued mid-stream the consumer reads nothing more and
\* invokes no further callback: the assistant node gets no delta, no
\* completion info is recorded and the error callback sets nothing.
C5_NoCallbackAfterAbort ==
  [][\A x \in DOMAIN exchanges :
       exchanges[x].aborted /\ exchanges[x].pc = "reading" =>
         /\ NodeContent(messages', x) \in {NodeContent(messages, x), <<>>}
         /\ messageInfo' = messageInfo
         /\ error' = error
         /\ x \in DOMAIN exchanges' =>
              /\ exchanges'[x].reads = exchanges[x].reads
              /\ exchanges'[x].calls = exchanges[x].calls
              /\ exchanges'[x].buffer = exchanges[x].buffer]_vars

\* an exchange aborted after a chunk was read and a delta delivered
C5_Witness ==
  \E x \in DOMAIN exchanges :
    /\ exchanges[x].aborted
    /\ exchanges[x].pc = "reading"
    /\ exchanges[x].reads > 0
    /\ exchanges[x].calls > 0
    /\ Len(NodeContent(messages, x)) > 0

\* a step in which a sendPrompt call ran: it returned at a guard or it
\* handed out ids and reached its first await
IsSendAttempt == lastCall' # lastCall \/ nextId' # nextId

\* C21: the session holds one error message at most, and every sendPrompt
\* call made while an error is set leaves the error state empty.
C21_SendClearsError ==
  /\ [](error \in STRING)
  /\ [][IsSendAttempt /\ error # "null" => error' = "null"]_vars

\* the assistant node of the latest exchange
LatestAssistant == nextId - 1

\* s is t with something appended
IsPrefix(s, t) == Len(s) <= Len(t) /\ SubSeq(t, 1, Len(s)) = s

Ends(x) == x \in DOMAIN exchanges /\ x \notin DOMAIN exchanges'

\* the messages a failed request can leave: the three of sendPrompt and
\* readErrorMessage, and the payload.error of a non-OK response
RequestFailures ==
  {"Failed to fetch", "Streaming is not supported in this environment.",
   "Internal Server Error", "bad request"}

\* C33: a failure of an exchange that is not an abort surfaces as one
\* session-level error string and records no completion info for the
\* exchange's assistant node.  An exchange that ends at the fetch or at the
\* error body without an abort leaves the message of that failure; an
\* exchange that ends while reading with an error set (a server error frame
\* or a rejected read) has no completion info; and the error state changes
\* only in the step that ends an exchange.
C33_FailureSurfaces ==
  [][\A x \in DOMAIN exchanges :
       /\ Ends(x) /\ exchanges[x].pc \in {"fetching", "errbody"} /\ ~exchanges[x].aborted =>
            /\ error' \in RequestFailures
            /\ x \notin DOMAIN messageInfo'
       /\ Ends(x) /\ exchanges[x].pc = "reading" /\ ~exchanges[x].aborted /\ error' # "null" =>
            /\ error' \in {"boom", "Failed to fetch"}
            /\ x \notin DOMAIN messageInfo'
       /\ error' # error => Ends(x)]_vars

\* an exchange that streamed a delta and then got a server error frame: the
\* error is set and the node has content and no completion info
C33_Witness ==
  /\ DOMAIN exchanges = {}
  /\ error = "boom"
  /\ delivered = <<"Hi">>
  /\ NodeContent(messages, LatestAssistant) = <<"Hi">>
  /\ LatestAssistant \notin DOMAIN messageInfo

-----------------------------------------------------------------------------
(* Tree properties of the session *)

\* id is X or has X among its ancestors
RECURSIVE IsUnder(_, _, _, _)
IsUnder(msgs, id, X, fuel) ==
  \/ id = X
  \/ /\ fuel > 0
     /\ FindMsg(msgs, id) # <<>>
     /\ FindMsg(msgs, id)[1].parentId # NoId
     /\ IsUnder(msgs, FindMsg(msgs, id)[1].parentId, X, fuel - 1)

SubtreeOf(msgs, X) == {id \in Ids(msgs) : IsUnder(msgs, id, X, Len(msgs))}

\* id, role, content and parentId of a node
Kept(m) == [id |-> m.id, role |-> m.role, content |-> m.content, parentId |-> m.parentId]

\* a step that takes nodes out of the list: only deleteMessage does
IsDelete == Len(messages') < Len(messages)

\* C15: deleting node X removes X and every descendant of X and nothing
\* else: the node count drops by the size of X's subtree, X's former parent
\* no longer lists X in children, and every node outside the subtree keeps its
\* id, role, content and parentId.
C15_DeleteCascades ==
  [][IsDelete =>
       \E X \in Ids(messages) :
         LET sub == SubtreeOf(messages, X)
             P == FindMsg(messages, X)[1].parentId
         IN /\ Ids(messages') = Ids(messages) \ sub
            /\ Len(messages') = Len(messages) - Cardinality(sub)
            /\ P # NoId =>
                 /\ \A c \in 1..Len(FindMsg(messages', P)[1].children) :
                      FindMsg(messages', P)[1].children[c] # X
                 /\ \A c \in 1..Len(buildMessageTree(messages').node[P].children) :
                      buildMessageTree(messages').node[P].children[c] # X
            /\ \A id \in Ids(messages') :
                 Kept(FindMsg(messages', id)[1]) = Kept(FindMsg(messages, id)[1])]_vars

\* four nodes were created and the subtree of the third, two nodes, has been
\* deleted from under the second
C15_Witness ==
  /\ nextId = 5
  /\ IdsOfSeq(messages) = <<1, 2>>
  /\ 2 \in DOMAIN selectedBranches /\ selectedBranches[2] = 3
  /\ messages[2].children = <<>>
  /\ messages[1].children = <<2>>

\* C16: after a delete that leaves the tree non-empty the resolver names a
\* valid leaf: getActiveLeaf returns the id of a node that is in the tree and
\* has no children, and the active path is not empty.
ValidLeaf(render) ==
  /\ render.activeLeafId \in DOMAIN render.tree.node
  /\ render.tree.node[render.activeLeafId].children = <<>>
  /\ render.activePath # <<>>

C16_LeafAfterDelete ==
  [][IsDelete /\ messages' # <<>> => ValidLeaf(RenderOf(messages', selectedBranches'))]_vars

\* the render before and the render after a step
Before == Render
After == RenderOf(messages', selectedBranches')

\* the steps of sendPrompt that create nodes, told apart by what they append:
\* one assistant node, or a user node with the edited or the typed text and
\* an assistant node
IsRegenerate == Len(messages') = Len(messages) + 1

IsEditResubmit ==
  /\ Len(messages') = Len(messages) + 2
  /\ messages'[Len(messages') - 1].content = <<"e">>

IsStandardSend ==
  /\ Len(messages') = Len(messages) + 2
  /\ messages'[Len(messages') - 1].content = <<"q">>

\* the selector key of a parent id
KeyOf(parentId) == IF parentId # NoId THEN parentId ELSE RootKey

\* every node of the list is in the next list, unchanged but for children
OldNodesKept ==
  \A id \in Ids(messages) :
    /\ FindMsg(messages', id) # <<>>
    /\ Kept(FindMsg(messages', id)[1]) = Kept(FindMsg(messages, id)[1])

\* the new assistant node N of a regenerate step, against the renders before
\* and after it
RegenerateAdded(N, before, after) ==
  LET P == N.parentId
  IN /\ N.id \notin Ids(messages)
     /\ N.role = "assistant" /\ N.content = <<>>
     /\ P \in Ids(messages)
     /\ OldNodesKept
     /\ FindMsg(messages', P)[1].children
          = Append(FindMsg(messages, P)[1].children, N.id)
     /\ after.tree.node[P].children = Append(before.tree.node[P].children, N.id)
     /\ \E i \in 1..Len(before.activePath) :
          LET A == before.activePath[i]
          IN /\ A.role = "assistant" /\ A.parentId = P
             /\ NodeContent(messages', A.id) = A.content
             /\ Len(getSiblings(after.tree, A.id)) = Len(getSiblings(before.tree, A.id)) + 1
             /\ Len(getSiblings(before.tree, A.id)) = 1 =>
                  IdsOfSeq(getSiblings(after.tree, A.id)) = <<A.id, N.id>>

\* C17: regenerating assistant node A with parent P adds an assistant node
\* under P and replaces nothing: A stays with its content, the new node is
\* empty, P's children gain exactly the new id, appended last, and
\* getSiblings(A) grows by one.
C17_RegenerateAddsSibling ==
  [][IsRegenerate => RegenerateAdded(messages'[Len(messages')], Before, After)]_vars

\* assistant 4 under the second user node was regenerated: 5 is its sibling
C17_Witness ==
  /\ Len(messages) = 5
  /\ IdsOfSeq(getSiblings(tree, 4)) = <<4, 5>>
  /\ tree.node[5].role = "assistant"
  /\ tree.node[4].parentId = 3
  /\ activeLeafId = 5

\* the new user node U2 and assistant node A2 of an edit-and-resubmit step
EditAdded(U2, A2, before, after) ==
  /\ U2.id \notin Ids(messages) /\ A2.id \notin Ids(messages)
  /\ U2.role = "user"
  /\ A2.role = "assistant" /\ A2.content = <<>> /\ A2.parentId = U2.id
  /\ after.tree.node[U2.id].children = <<A2.id>>
  /\ OldNodesKept
  /\ selectedBranches'[KeyOf(U2.parentId)] = U2.id
  /\ selectedBranches'[U2.id] = A2.id
  /\ after.activeLeafId = A2.id
  /\ \E i \in 1..Len(before.activePath) :
       LET U == before.activePath[i]
       IN /\ U.role = "user" /\ U.parentId = U2.parentId
          /\ IdsOfSeq(getSiblings(after.tree, U.id))
               = Append(IdsOfSeq(getSiblings(before.tree, U.id)), U2.id)
          /\ \A id \in SubtreeOf(messages, U.id) :
               FindMsg(messages', id) = FindMsg(messages, id)

\* C18: edit and resubmit on user node U adds a user node with the edited
\* text beside U (under U's parent, or as another root), and an empty
\* assistant node under it; U and U's subtree stay as they were, and both new
\* nodes are selected, so the active leaf is the new assistant node.
C18_EditAddsSiblingBranch ==
  [][IsEditResubmit =>
       EditAdded(messages'[Len(messages') - 1], messages'[Len(messages')], Before, After)]_vars

\* user node 3 under assistant 2 was edited: 5 is its sibling with the edited
\* text and 6 the new assistant node, which is the active leaf
C18_Witness ==
  /\ Len(messages) = 6
  /\ tree.node[3].parentId = 2
  /\ IdsOfSeq(getSiblings(tree, 3)) = <<3, 5>>
  /\ tree.node[5].content = <<"e">>
  /\ tree.node[3].children = <<4>>
  /\ activeLeafId = 6

\* the new user node U2 and assistant node A2 of a standard Send
SendAdded(U2, A2, before, after) ==
  /\ U2.role = "user" /\ U2.parentId = before.activeLeafId
  /\ (U2.parentId = NoId) <=> (messages = <<>>)
  /\ A2.role = "assistant" /\ A2.content = <<>> /\ A2.parentId = U2.id
  /\ selectedBranches'[KeyOf(U2.parentId)] = U2.id
  /\ selectedBranches'[U2.id] = A2.id
  /\ after.activeLeafId = A2.id

\* C19: a standard Send puts the new user node under the current active
\* leaf, and makes it a root only when the tree is empty; it puts an empty
\* assistant node under that user node and selects both at their parents, so
\* the active leaf after the Send is the new assistant node.
C19_SendAppendsAtLeaf ==
  [][IsStandardSend =>
       SendAdded(messages'[Len(messages') - 1], messages'[Len(messages')], Before, After)]_vars

\* the ids of the records of msgs whose parentId is id, in list order
ChildIdsIn(msgs, id) == IdsOfSeq(SelectSeq(msgs, LAMBDA m : m.parentId = id))

\* kids lists exactly the records of msgs whose parentId is id, each once,
\* in creation order (generateMessageId hands out ascending ids)
ExactChildren(kids, msgs, id) ==
  /\ {kids[j] : j \in 1..Len(kids)} = {m.id : m \in {msgs[i] : i \in {k \in 1..Len(msgs) : msgs[k].parentId = id}}}
  /\ \A j, k \in 1..Len(kids) : j < k => kids[j] < kids[k]

\* C22: in every reachable state of the chat page the children of each node,
\* as stored on the flat record and as rebuilt by buildMessageTree, are
\* exactly the nodes whose parentId is that node's id, without duplicates and
\* in creation order.
C22_ChildrenExact ==
  \A i \in 1..Len(messages) :
    /\ ExactChildren(messages[i].children, messages, messages[i].id)
    /\ ExactChildren(buildMessageTree(messages).node[messages[i].id].children,
                     messages, messages[i].id)

\* a node deleted, a later sibling added under the same parent, and a delta
\* appended to a node
C22_Witness ==
  /\ \E i \in 1..Len(messages) :
       /\ Len(messages[i].children) = 2
       /\ messages[i].children[2] > messages[i].children[1] + 1
       /\ messages[i].children[1] + 1 \notin Ids(messages)
  /\ \E i \in 1..Len(messages) : Len(messages[i].content) > 0 /\ messages[i].role = "assistant"

\* the path getMessagePath walks up from id ends at id and starts at a node
\* without parentId
PathReachesRoot(t, id) ==
  LET path == getMessagePath(t, id)
  IN /\ Len(path) > 0
     /\ path[Len(path)].id = id
     /\ path[1].parentId = NoId
     /\ \A k \in 2..Len(path) : path[k].parentId = path[k - 1].id

\* C23: in every reachable state of the chat page every node with a parentId
\* has its parent in the tree, the parent was created before it (so no
\* cycle), and getMessagePath from any node reaches a node without parentId.
C23_ParentsPresent ==
  \A i \in 1..Len(messages) :
    /\ messages[i].parentId # NoId =>
         /\ messages[i].parentId \in Ids(messages)
         /\ messages[i].parentId < messages[i].id
    /\ PathReachesRoot(buildMessageTree(messages), messages[i].id)

\* a subtree was deleted and a node three levels deep is still in the tree
C23_Witness ==
  /\ nextId - 1 > Len(messages)
  /\ \E i \in 1..Len(messages) :
       Len(getMessagePath(buildMessageTree(messages), messages[i].id)) >= 3

\* the proper ancestors of node A, in list order (creation order)
AncestorsOf(msgs, A) ==
  SelectSeq(msgs, LAMBDA m : m.id # A /\ IsUnder(msgs, A, m.id, Len(msgs)))

RolesAndContents(ms) ==
  [i \in 1..Len(ms) |-> [role |-> ms[i].role, content |-> ms[i].content]]

\* anc is a chain from a node without parentId down to the parent of A
ChainDownTo(anc, parentOfA) ==
  /\ Len(anc) > 0
  /\ anc[1].parentId = NoId
  /\ \A k \in 2..Len(anc) : anc[k].parentId = anc[k - 1].id
  /\ anc[Len(anc)].id = parentOfA

\* the request of the exchange that created assistant node A, against the
\* lists before and after the call
RequestListsAncestors(A, before, after, request) ==
  LET anc == AncestorsOf(after, A)
      N == FindMsg(after, A)[1]
  IN /\ ChainDownTo(anc, N.parentId)
     /\ request = RolesAndContents(anc)
     /\ \A i \in 1..Len(request) : DOMAIN request[i] = {"role", "content"}
     /\ \A i \in 1..Len(anc) : anc[i].id # A
     /\ IF Len(after) = Len(before) + 1
        THEN \E j \in 1..Len(before) :
               /\ before[j].role = "assistant"
               /\ before[j].parentId = N.parentId
               /\ request = RolesAndContents(AncestorsOf(before, before[j].id))
               /\ \A i \in 1..Len(anc) : anc[i].id # before[j].id
        ELSE /\ anc[Len(anc)].id = A - 1
             /\ anc[Len(anc)].id \notin Ids(before)
             /\ request[Len(request)].role = "user"
             /\ request = RolesAndContents(AncestorsOf(before, anc[Len(anc)].parentId)
                                            \o FindMsg(before, anc[Len(anc)].parentId))
                            \o <<[role |-> "user", content |-> anc[Len(anc)].content]>>

\* C24: the request body of every exchange lists, from the root down, exactly
\* the ancestors of the new assistant node as role and content pairs: for a
\* send or an edit the path that ends in the new user node, for a regenerate
\* the ancestors the original assistant has; never the new assistant node,
\* the regenerated assistant or a node off that path.
C24_RequestIsAncestorPath ==
  [][nextId' # nextId =>
       RequestListsAncestors(nextId' - 1, messages, messages', lastRequest')]_vars

\* the request of a second send: the first prompt, the streamed answer and
\* the new prompt
C24_Witness ==
  /\ lastCall = "started"
  /\ Len(lastRequest) = 3
  /\ lastRequest[2].role = "assistant"
  /\ Len(lastRequest[2].content) > 0
  /\ lastRequest[3].role = "user"

\* the selector keys whose entry names an id that is not in the list
StaleKeys(msgs, sel) == {k \in DOMAIN sel : sel[k] \notin Ids(msgs)}

\* C28: a selection entry that names a deleted id is ignored: for every
\* selector key, the key 'root' included, getActiveLeaf returns with the
\* stale entry what it returns without it.
C28_StaleSelectionIgnored ==
  \A k \in StaleKeys(messages, selectedBranches) :
    getActiveLeaf(buildMessageTree(messages), selectedBranches)
      = getActiveLeaf(buildMessageTree(messages), Remove(selectedBranches, k))

\* node id is on the active path of the render
OnActivePath(render, id) ==
  \E i \in 1..Len(render.activePath) : render.activePath[i].id = id

\* a step of navigateBranch: the selection changes and no node is created
IsNavigation == selectedBranches' # selectedBranches /\ nextId' = nextId

\* C37: navigateBranch changes the selection map only, never the nodes, their
\* content, the in-flight marker or the exchange; and while the assistant
\* node of the exchange in flight is in the list, on the active path or not,
\* every step appends to its content exactly the deltas delivered in that
\* step and stores completion info under its id only.
C37_NavigationLeavesExchange ==
  [][/\ IsNavigation =>
          UNCHANGED <<messages, isStreaming, error, messageInfo, abortRef, exchanges,
                      delivered, lastRequest>>
     /\ \A x \in DOMAIN exchanges :
          /\ (exchanges[x].pc = "reading" /\ x \in Ids(messages')) =>
               NodeContent(messages', x)
                 = NodeContent(messages, x)
                     \o SubSeq(delivered', Len(delivered) + 1, Len(delivered'))
          /\ messageInfo' # messageInfo =>
               /\ DOMAIN messageInfo' = DOMAIN messageInfo \cup {x}
               /\ \A k \in DOMAIN messageInfo \ {x} : messageInfo'[k] = messageInfo[k]]_vars

\* the assistant node of the exchange in flight has content and is not on
\* the active path, which shows another branch
C37_Witness ==
  \E x \in DOMAIN exchanges :
    /\ exchanges[x].pc = "reading"
    /\ activePath # <<>>
    /\ ~OnActivePath(Render, x)
    /\ NodeContent(messages, x) = <<"Hi", "Hi">>

\* C38: in every reachable state each key of the completion-info map names
\* an assistant node that is in the tree, so the session analytics total the
\* output tokens of messages that exist only.
C38_InfoOfPresentNodes ==
  /\ \A k \in DOMAIN messageInfo :
       /\ FindMsg(messages, k) # <<>>
       /\ FindMsg(messages, k)[1].role = "assistant"
  /\ computeAnalytics(messageInfo).totalOutputTokens
       = SumEvalCount(messageInfo, DOMAIN messageInfo \cap Ids(messages))

\* the exchange of x ends in this step, cancelled or with an error
FailsOrIsCancelled(x) == Ends(x) /\ (exchanges[x].aborted \/ error' # "null")

EntriesNameChildren(msgs, sel) ==
  \A k \in DOMAIN sel :
    \/ sel[k] \notin Ids(msgs)
    \/ FindMsg(msgs, sel[k])[1].parentId = k

\* path is a chain of nodes from a node without parentId to a childless node
RootToLeafChain(path) ==
  /\ Len(path) > 0
  /\ path[1].parentId = NoId
  /\ \A k \in 2..Len(path) : path[k].parentId = path[k - 1].id
  /\ path[Len(path)].children = <<>>

\* C35: in every reachable state of the chat page each selection entry names
\* a current child of its key (a root for the key 'root') or an id that is no
\* longer in the tree, and the active path of a tree that is not empty is a
\* parent-linked chain from a root to a childless node.
C35_SelectionsAndActivePath ==
  /\ EntriesNameChildren(messages, selectedBranches)
  /\ messages # <<>> => RootToLeafChain(activePath)

-----------------------------------------------------------------------------
(* Resolver properties *)

\* the walk the rule describes: a selection is followed only if it names a
\* child of the current node, otherwise the last child is
RECURSIVE RuleLeaf(_, _, _, _)
RuleLeaf(t, sel, current, fuel) ==
  LET kids == t.node[current].children
      chosen == IF /\ current \in DOMAIN sel
                   /\ \E i \in 1..Len(kids) : kids[i] = sel[current]
                THEN sel[current] ELSE kids[Len(kids)]
  IN IF Len(kids) = 0 \/ fuel = 0 THEN current
     ELSE RuleLeaf(t, sel, chosen, fuel - 1)

RootsOf(t) == SelectSeq(t.order, LAMBDA id : t.node[id].parentId = NoId)

\* the root the walk starts at: the 'root' selection, else the first root
StartRoot(t, sel) == IF RootKey \in DOMAIN sel THEN sel[RootKey] ELSE RootsOf(t)[1]

\* the path takes the last child at every step
LastChildPath(t, path) ==
  \A i \in 1..(Len(path) - 1) :
    path[i + 1] = t.node[path[i]].children[Len(t.node[path[i]].children)]

ResolvedByRule(t) ==
  LET start == StartRoot(t, gSel)
  IN /\ gLeaf = RuleLeaf(t, gSel, start, Len(t.order))
     /\ gLeaf \in DOMAIN t.node
     /\ t.node[gLeaf].children = <<>>
     /\ IsUnder(gMsgs, gLeaf, start, Len(gMsgs))
     /\ (gSel = <<>> /\ Len(RootsOf(t)) = 1) =>
          /\ gPath[1] = start
          /\ gPath[Len(gPath)] = gLeaf
          /\ LastChildPath(t, gPath)

\* C20: for any tree and any selection map whose starting root is a root of
\* the tree, getActiveLeaf follows a selection only when it names a child of
\* the current node and the last child otherwise, and returns a childless
\* descendant of the starting root; with an empty selection and one root the
\* path starts at the root and takes the last child at every branch point.
C20_LeafByRule ==
  (/\ gPc = "resolved"
   /\ gMsgs # <<>>
   /\ \E i \in 1..Len(gMsgs) : gMsgs[i].parentId = NoId /\
                                 gMsgs[i].id = StartRoot(buildMessageTree(gMsgs), gSel))
    => ResolvedByRule(buildMessageTree(gMsgs))

\* C36: getActiveLeaf returns for every finite tree and every selection map,
\* maps whose entries name a node that is not a child of the entry's key (an
\* ancestor of the key, say) included.
C36_LeafTerminates == gPc = "resolved" => gLeaf # Diverges

-----------------------------------------------------------------------------
(* Properties of buildMessageTree and getSiblings *)

\* every node of t has the same parentId and the same children in u
SameRelations(t, u) ==
  /\ DOMAIN t.node = DOMAIN u.node
  /\ \A id \in DOMAIN t.node :
       /\ t.node[id].parentId = u.node[id].parentId
       /\ t.node[id].children = u.node[id].children

\* C26: buildMessageTree is idempotent: a second build of the same flat list,
\* and a build of the flattened result of a build, give every node the
\* parentId and the children the first build gave it.
C26_BuildIdempotent ==
  /\ gPc = "built" => SameRelations(buildMessageTree(gMsgs), gTree)
  /\ gPc = "rebuilt" => SameRelations(gTree, gFirst)

\* what getSiblings is to return for id: the children of its parent when the
\* parent is in the tree, the roots when id is a root, id alone when id is
\* not in the tree
SiblingsByCase(t, id, siblings) ==
  /\ id \notin DOMAIN t.node => siblings = <<id>>
  /\ id \in DOMAIN t.node /\ t.node[id].parentId = NoId => siblings = RootsOf(t)
  /\ id \in DOMAIN t.node /\ t.node[id].parentId \in DOMAIN t.node =>
       siblings = t.node[t.node[id].parentId].children

\* C27: getSiblings(id) returns the children of id's parent, in children
\* order, when id has a parent; all roots when id is a root; and id alone
\* when id is not in the tree.
C27_SiblingsByCase ==
  gPc = "queried" => SiblingsByCase(gTree, gQuery, gSiblings)

\* the nodes of t whose parentId names a node that is not in t
Orphans(t) ==
  {id \in DOMAIN t.node : t.node[id].parentId # NoId /\ t.node[id].parentId \notin DOMAIN t.node}

\* the roots of t with its orphans counted among them, in the order of the tree
ImplicitRoots(t) ==
  SelectSeq(t.order, LAMBDA id : t.node[id].parentId = NoId \/ id \in Orphans(t))

\* no node of t lists id among its children
LinkedToNoParent(t, id) ==
  \A p \in DOMAIN t.node : \A c \in 1..Len(t.node[p].children) : t.node[p].children[c] # id

\* no two records of the list carry the same id
NoRepeatedId(msgs) == \A i, j \in 1..Len(msgs) : msgs[i].id = msgs[j].id => i = j

\* C29: a node whose parentId names a node absent from the flat list is an
\* implicit root.  For a list without a repeated id: buildMessageTree puts the
\* orphan in no children list; the resolver counts it among the roots, so
\* that a non-empty tree has an active leaf and an empty selection starts the
\* walk at the first root or orphan; and getSiblings of an orphan returns the
\* roots and orphans.
C29_OrphanIsRoot ==
  NoRepeatedId(gMsgs) =>
    /\ gPc = "built" => \A o \in Orphans(gTree) : LinkedToNoParent(gTree, o)
    /\ gPc = "resolved" /\ gMsgs # <<>> /\ gSel = <<>> =>
         /\ gLeaf \in Ids(gMsgs)
         /\ buildMessageTree(gMsgs).node[gLeaf].children = <<>>
         /\ gPath # <<>>
         /\ gPath[1] = ImplicitRoots(buildMessageTree(gMsgs))[1]
    /\ gPc = "queried" /\ gQuery \in Orphans(gTree) => gSiblings = ImplicitRoots(gTree)

\* no id is listed twice in kids
ListedOnce(kids) == \A i, j \in 1..Len(kids) : kids[i] = kids[j] => i = j

\* C30: of two records with the same id the second is ignored: the node of
\* the tree keeps the role, content and parentId of the first record of its
\* id, and no children list names an id twice.
C30_DuplicateIgnored ==
  gPc = "built" =>
    \A id \in DOMAIN gTree.node :
      /\ Kept(gTree.node[id]) = Kept(FindMsg(gMsgs, id)[1])
      /\ ListedOnce(gTree.node[id].children)

\* path is the chain of parentId links that ends at id: every element is in
\* the tree and is the parent of the next, and the chain starts at a node
\* without parentId or at one whose parentId names a missing node
ChainUpFrom(t, id, path) ==
  /\ Len(path) > 0
  /\ path[Len(path)] = id
  /\ \A k \in 1..Len(path) : path[k] \in DOMAIN t.node
  /\ \A k \in 1..(Len(path) - 1) : t.node[path[k + 1]].parentId = path[k]
  /\ t.node[path[1]].parentId = NoId \/ t.node[path[1]].parentId \notin DOMAIN t.node

\* C31: getMessagePath(tree, leafId) returns the chain walked along parentId
\* from leafId, reversed: leafId is last, each element is the parent of the
\* next, a parentId that names a missing node ends the walk with the path
\* so far, and an undefined or unknown leafId gives the empty path.
C31_PathIsParentChain ==
  gPc = "walked" =>
    IF gQuery \in DOMAIN gTree.node
    THEN ChainUpFrom(gTree, gQuery, gPath)
    ELSE gPath = <<>>

\* a path of two nodes that stops at an orphan
C31_Witness ==
  /\ gPc = "walked"
  /\ Len(gPath) = 2
  /\ gPath[2] = gQuery
  /\ gTree.node[gPath[1]].parentId # NoId
  /\ gTree.node[gPath[1]].parentId \notin DOMAIN gTree.node

-----------------------------------------------------------------------------
(* Chunk boundaries *)

\* C34: for a byte stream, every way of cutting it into chunks makes the relay
\* yield the same payloads, and makes the consumer invoke the same callbacks,
\* as the same bytes delivered in one chunk.
C34_ChunkIndependent ==
  /\ pPc = "relayed" => pOut = RelayYields(<<Whole(pChunks)>>, <<>>, <<>>)
  /\ pPc = "consumed" => pOut = ConsumeBytes(<<Whole(pChunks)>>, <<>>, <<>>, <<>>)

=============================================================================
